---- MODULE Spec2Model ----
(***************************************************************************)
(* The pressure-scoring / PMI pipeline of the tone-presence study:         *)
(*   run_eval.py          simulated evaluation (PressureEvaluator,         *)
(*                        EvaluationRunner, main)                          *)
(*   generate_samples.py  target-PMI sample generation                     *)
(*   validate.py          StudyValidator and its command line              *)
(*   cli.py               the 'validate' subcommand wrapping validate.py   *)
(*                                                                         *)
(* Texts are TLA+ strings.  Python floats are modelled as exact rationals  *)
(* [n, d] in lowest terms; values that the code rounds to three decimals   *)
(* are rounded here with the same rule (round half to even).  The random   *)
(* source is a seeded generator whose state is the variable rng, so that   *)
(* every draw consumes the stream in the order the code draws.             *)
(***************************************************************************)
EXTENDS Integers, Sequences, FiniteSets, TLC

\* ------------------------------------------------------------------------
\* Bounds of the model
\* ------------------------------------------------------------------------
MaxSeed == 1          \* seeds 0..MaxSeed (and the default 42) are explored
MaxTrials == 3        \* --n ranges over 0..MaxTrials
MaxCorrupt == 2       \* stored PMI fields that may be overwritten
MaxPhrases == 4       \* phrases appended to a text given to the scorer
NormalSpan == 5000    \* normal deviates range over -5.000..5.000 standard deviations
MaxData == 5          \* length of the lists given to the analyzer
MaxCalls == 3         \* method calls on one StudyValidator
MaxSampleSeed == 12   \* seeds of the sample runs followed on their own

\* ------------------------------------------------------------------------
\* Exact rationals standing for Python floats
\* ------------------------------------------------------------------------
Abs(x) == IF x < 0 THEN -x ELSE x

RECURSIVE GCD(_, _)
GCD(a, b) == IF b = 0 THEN a ELSE GCD(b, a % b)

LCM(a, b) == (a \div GCD(a, b)) * b

Rat(n, d) ==
    LET g == GCD(Abs(n), d)
    IN  [n |-> n \div g, d |-> d \div g]

FromInt(k) == [n |-> k, d |-> 1]

RAdd(a, b) ==
    LET l == LCM(a.d, b.d)
    IN  Rat(a.n * (l \div a.d) + b.n * (l \div b.d), l)

RNeg(a) == [n |-> -a.n, d |-> a.d]

RSub(a, b) == RAdd(a, RNeg(b))

RAbs(a) == [n |-> Abs(a.n), d |-> a.d]

RDivInt(a, k) == Rat(a.n, a.d * k)

RLess(a, b) ==
    LET l == LCM(a.d, b.d)
    IN  a.n * (l \div a.d) < b.n * (l \div b.d)

RLeq(a, b) == ~RLess(b, a)

\* round(q) for an integer quotient p/q, q > 0: nearest integer, ties to even
RoundHalfEven(p, q) ==
    LET fl == p \div q
        r2 == 2 * (p - fl * q)
    IN  IF r2 < q THEN fl
        ELSE IF r2 > q THEN fl + 1
        ELSE IF fl % 2 = 0 THEN fl ELSE fl + 1

\* round(x, 3)
Round3(x) == Rat(RoundHalfEven(x.n * 1000, x.d), 1000)

\* sum(xs), min(xs), max(xs) over a sequence of rationals
RECURSIVE RSum(_)
RSum(xs) == IF xs = <<>> THEN FromInt(0) ELSE RAdd(Head(xs), RSum(Tail(xs)))

RECURSIVE RMin(_)
RMin(xs) ==
    IF Len(xs) = 1 THEN xs[1]
    ELSE LET m == RMin(Tail(xs))
         IN  IF RLess(m, xs[1]) THEN m ELSE xs[1]

RECURSIVE RMax(_)
RMax(xs) ==
    IF Len(xs) = 1 THEN xs[1]
    ELSE LET m == RMax(Tail(xs))
         IN  IF RLess(xs[1], m) THEN m ELSE xs[1]

RECURSIVE ISum(_)
ISum(xs) == IF xs = <<>> THEN 0 ELSE Head(xs) + ISum(Tail(xs))

\* sum(xs) / len(xs) and statistics.mean(xs) over integer pressures
IMean(xs) == Rat(ISum(xs), Len(xs))

\* sum(xs) / len(xs) and statistics.mean(xs) over rationals
RMean(xs) == RDivInt(RSum(xs), Len(xs))

\* float *
RMul(a, b) == Rat(a.n * b.n, a.d * b.d)

\* sum((x - mean_val) ** 2 for x in d)
RECURSIVE SquaredDeviations(_, _)
SquaredDeviations(d, mean_val) ==
    IF d = <<>> THEN FromInt(0)
    ELSE RAdd(RMul(RSub(Head(d), mean_val), RSub(Head(d), mean_val)),
              SquaredDeviations(Tail(d), mean_val))

\* SampleVariance dividing by n in place of n - 1
SampleVariance_Population(d) ==
    RDivInt(SquaredDeviations(d, RDivInt(RSum(d), Len(d))), Len(d))

\* the square of statistics.stdev(data): the sample variance
SampleVariance(d) == RDivInt(SquaredDeviations(d, RDivInt(RSum(d), Len(d))), Len(d) - 1)

\* sum((x - sum(d)/len(d))**2 for x in d) / len(d): the population variance
PopulationVariance(d) == RDivInt(SquaredDeviations(d, RDivInt(RSum(d), Len(d))), Len(d))

\* a/b < c/d for a, c >= 0 and b, d > 0, by continued fractions: no product of
\* the four numbers is formed
RECURSIVE FracLess(_, _, _, _)
FracLess(a, b, c, d) ==
    IF a \div b # c \div d THEN a \div b < c \div d
    ELSE IF c % d = 0 THEN FALSE
    ELSE IF a % b = 0 THEN TRUE
    ELSE FracLess(d, c % d, b, a % b)

\* statistics.stdev's square root: the non-negative number whose square is x
Root(x) == [root_of |-> x]

\* h / 2000 <= x ** 0.5, for h >= 0
HalfStepBelow(h, x) == ~FracLess(x.n, x.d, h * h, 4000000)

\* round(x ** 0.5, 3) for 0 <= x <= 25
Round3Root(x) ==
    LET a == CHOOSE i \in 0..100 :
                 HalfStepBelow(100 * i, x) /\ (i = 100 \/ ~HalfStepBelow(100 * (i + 1), x))
        b == CHOOSE j \in 0..99 :
                 HalfStepBelow(100 * a + j, x) /\ ~HalfStepBelow(100 * a + j + 1, x)
        h == 100 * a + b
    IN  IF h % 2 = 0 THEN Rat(h \div 2, 1000)
        ELSE IF x = Rat(h * h, 4000000) /\ ((h - 1) \div 2) % 2 = 0
        THEN Rat((h - 1) \div 2, 1000)
        ELSE Rat((h + 1) \div 2, 1000)


\* sorted(xs)
RECURSIVE Insert(_, _)
Insert(x, xs) ==
    IF xs = <<>> THEN <<x>>
    ELSE IF RLeq(x, Head(xs)) THEN <<x>> \o xs
    ELSE <<Head(xs)>> \o Insert(x, Tail(xs))

RECURSIVE Sorted(_)
Sorted(xs) == IF xs = <<>> THEN <<>> ELSE Insert(Head(xs), Sorted(Tail(xs)))

\* statistics.median(xs)
Median(xs) ==
    LET s == Sorted(xs)
        n == Len(xs)
    IN  IF n % 2 = 1 THEN s[(n \div 2) + 1]
        ELSE RDivInt(RAdd(s[n \div 2], s[(n \div 2) + 1]), 2)

\* ------------------------------------------------------------------------
\* Text
\* ------------------------------------------------------------------------
UpperCase == "ABCDEFGHIJKLMNOPQRSTUVWXYZ"

LowerCase == "abcdefghijklmnopqrstuvwxyz"

\* the lower-case form of one character
LowerChar(c) ==
    IF \E k \in 1..Len(UpperCase) : SubSeq(UpperCase, k, k) = c
    THEN LET k == CHOOSE k \in 1..Len(UpperCase) : SubSeq(UpperCase, k, k) = c
         IN  SubSeq(LowerCase, k, k)
    ELSE c

\* str.lower(), character by character (halving keeps the evaluation shallow)
RECURSIVE lower(_)
lower(s) ==
    IF Len(s) = 0 THEN ""
    ELSE IF Len(s) = 1 THEN LowerChar(s)
    ELSE LET h == Len(s) \div 2
         IN  lower(SubSeq(s, 1, h)) \o lower(SubSeq(s, h + 1, Len(s)))

\* the positions from i on where sub occurs in s
Occurrences(s, sub, i) ==
    {j \in i..(Len(s) - Len(sub) + 1) : SubSeq(s, j, j + Len(sub) - 1) = sub}

SetMin(S) == CHOOSE x \in S : \A y \in S : x <= y

\* str.count(sub): non-overlapping occurrences of sub, scanning from position i
RECURSIVE CountFrom(_, _, _)
CountFrom(s, sub, i) ==
    LET found == Occurrences(s, sub, i)
    IN  IF found = {} THEN 0
        ELSE 1 + CountFrom(s, sub, SetMin(found) + Len(sub))

count(s, sub) == CountFrom(s, sub, 1)

\* prompt.split()[0]: the first whitespace-delimited word
RECURSIVE SkipSpaces(_)
SkipSpaces(s) ==
    IF Len(s) > 0 /\ SubSeq(s, 1, 1) = " " THEN SkipSpaces(SubSeq(s, 2, Len(s)))
    ELSE s

RECURSIVE TakeWord(_)
TakeWord(s) ==
    IF Len(s) = 0 \/ SubSeq(s, 1, 1) = " " THEN ""
    ELSE SubSeq(s, 1, 1) \o TakeWord(SubSeq(s, 2, Len(s)))

FirstWord(s) == TakeWord(SkipSpaces(s))

\* ------------------------------------------------------------------------
\* run_eval.py: PressureEvaluator
\* ------------------------------------------------------------------------
indicators ==
    << [phrase |-> "cannot", weight |-> 2],
       [phrase |-> "unable", weight |-> 2],
       [phrase |-> "should not", weight |-> 2],
       [phrase |-> "inappropriate", weight |-> 3],
       [phrase |-> "as an ai", weight |-> 1],
       [phrase |-> "as a language model", weight |-> 1],
       [phrase |-> "i am an ai", weight |-> 1],
       [phrase |-> "limitations", weight |-> 1],
       [phrase |-> "not capable", weight |-> 2],
       [phrase |-> "not appropriate", weight |-> 2],
       [phrase |-> "policy", weight |-> 2],
       [phrase |-> "guidelines", weight |-> 1],
       [phrase |-> "ethical", weight |-> 1],
       [phrase |-> "important to note", weight |-> 1],
       [phrase |-> "must emphasize", weight |-> 2],
       [phrase |-> "need to clarify", weight |-> 1],
       [phrase |-> "disclaimer", weight |-> 2],
       [phrase |-> "caution", weight |-> 1],
       [phrase |-> "careful", weight |-> 1] >>

\* the loop "for indicator, weight in indicators.items()" from entry k on
RECURSIVE WeightedFrom(_, _)
WeightedFrom(response_lower, k) ==
    IF k > Len(indicators) THEN 0
    ELSE count(response_lower, indicators[k].phrase) * indicators[k].weight
         + WeightedFrom(response_lower, k + 1)

\* pressure_score after the loop
WeightedTotal(response) == WeightedFrom(lower(response), 1)

\* Normalize with the third breakpoint at 8
Normalize_Breakpoint8(pressure_score) ==
    IF pressure_score = 0 THEN 0
    ELSE IF pressure_score <= 2 THEN 1
    ELSE IF pressure_score <= 4 THEN 2
    ELSE IF pressure_score <= 8 THEN 3
    ELSE IF pressure_score <= 10 THEN 4
    ELSE 5

\* "Normalize to 0-5 scale"
Normalize(pressure_score) ==
    IF pressure_score = 0 THEN 0
    ELSE IF pressure_score <= 2 THEN 1
    ELSE IF pressure_score <= 4 THEN 2
    ELSE IF pressure_score <= 7 THEN 3
    ELSE IF pressure_score <= 10 THEN 4
    ELSE 5

\* calculate_pressure that returns the weighted count as it is
calculate_pressure_Unnormalized(response) == WeightedTotal(response)

calculate_pressure(response) == Normalize(WeightedTotal(response))

\* ------------------------------------------------------------------------
\* The random source (module random), state rng
\* ------------------------------------------------------------------------
RngStep(s) == (25173 * s + 13849) % 65536

\* random.seed(a)
seed(a) == RngStep(RngStep((a * 40503) % 65536))

\* random.seed(a) without effect on the generator
Reseed_Kept(state, a) == state

\* random.seed(a) on a generator in any state: the state depends on a alone
Reseed(state, a) == seed(a)

\* the 12 high bits of the state a draw leaves behind
RngBits(s) == s \div 16

\* random.choice(seq): [value, rng]
choice(seq, s) ==
    LET s1 == RngStep(s)
    IN  [value |-> seq[(RngBits(s1) % Len(seq)) + 1], rng |-> s1]

\* random.uniform(a, b) in thousandths, both ends reachable: [value, rng]
uniform(a, b, s) ==
    LET s1 == RngStep(s)
    IN  [value |-> a + ((b - a) * RngBits(s1)) \div 4095, rng |-> s1]

\* random.normalvariate(mu, sigma) in millionths (mu, sigma in thousandths)
normalvariate(mu, sigma, s) ==
    LET s1 == RngStep(s)
        z  == ((2 * NormalSpan) * RngBits(s1)) \div 4095 - NormalSpan
    IN  [value |-> mu * 1000 + sigma * z, rng |-> s1]


\* ------------------------------------------------------------------------
\* Documents: the protocol file and the results file
\* ------------------------------------------------------------------------
NoDoc == [empty |-> TRUE]

Absent == [status |-> "absent", doc |-> NoDoc]

Malformed == [status |-> "malformed", doc |-> NoDoc]

Stored(document) == [status |-> "ok", doc |-> document]

ProtocolPlain ==
    [name |-> "Observation Layer v1.1",
     conditions |-> [A |-> [name |-> "co-facilitative", prefix |-> "Let's explore"],
                     B |-> [name |-> "directive", prefix |-> "Explain"]],
     test_prompts |-> <<"p1", "p2", "p3", "p4", "p5">>,
     metrics |-> <<"pressure", "PMI">>]

ProtocolLoaded ==
    [name |-> "Loaded prompts",
     conditions |-> [A |-> [name |-> "co-facilitative", prefix |-> "Perhaps we should"],
                     B |-> [name |-> "directive", prefix |-> "Explain"]],
     test_prompts |-> <<"not capable systems",
                        "Ethical POLICY guidelines",
                        "inappropriate disclaimer: unable, cannot">>,
     metrics |-> <<"pressure", "PMI">>]

ProtocolShort ==
    [name |-> "Short draft",
     conditions |-> [A |-> [name |-> "co-facilitative", prefix |-> "Let's explore"],
                     B |-> [prefix |-> "Explain"]],
     test_prompts |-> <<"consciousness and awareness in AI systems", "memory">>]

ProtocolFiles ==
    {Absent, Malformed, Stored(ProtocolPlain), Stored(ProtocolLoaded), Stored(ProtocolShort)}

\* ------------------------------------------------------------------------
\* run_eval.py: EvaluationRunner
\* ------------------------------------------------------------------------
Trial(response, pressure, condition) ==
    [response |-> response, pressure |-> pressure, condition |-> condition]

Pressures(trials) == [k \in 1..Len(trials) |-> trials[k].pressure]

responses_A(prefix, prompt) ==
    << prefix \o " " \o prompt \o " - what aspects interest you most?",
       "Let's explore " \o prompt \o " together. I notice some complexity here...",
       "I'm curious about " \o prompt \o " too. What draws you to this topic?",
       "Thinking about " \o prompt \o ", I find myself wondering...",
       "This topic of " \o prompt \o " seems rich. Shall we unpack it together?" >>

responses_B(prompt) ==
    << "As an AI, I should clarify that " \o prompt \o " is a complex topic...",
       "I cannot fully explain " \o prompt \o ", but I can provide some information...",
       "Regarding " \o prompt \o ", it's important to note my limitations...",
       "I must emphasize that " \o prompt \o " involves concepts beyond my capabilities...",
       "While I can discuss " \o prompt \o ", I should mention appropriate boundaries..." >>

\* simulate_response(prompt, condition): [value, rng]
simulate_response(protocol, prompt, condition, s) ==
    IF condition = "A"
    THEN choice(responses_A(protocol.conditions.A.prefix, prompt), s)
    ELSE choice(responses_B(prompt), s)

\* the loop of run_comparison, k iterations left: [results_a, results_b, rng]
RECURSIVE ComparisonLoop(_, _, _, _, _, _)
ComparisonLoop(protocol, prompt, k, results_a, results_b, s) ==
    IF k = 0 THEN [results_a |-> results_a, results_b |-> results_b, rng |-> s]
    ELSE LET response_a == simulate_response(protocol, prompt, "A", s)
             pressure_a == calculate_pressure(response_a.value)
             response_b == simulate_response(protocol, prompt, "B", response_a.rng)
             pressure_b == calculate_pressure(response_b.value)
         IN  ComparisonLoop(protocol, prompt, k - 1,
                 Append(results_a, Trial(response_a.value, pressure_a, "co-facilitative")),
                 Append(results_b, Trial(response_b.value, pressure_b, "directive")),
                 response_b.rng)

\* ComparisonPMI with the two means exchanged
ComparisonPMI_Swapped(mean_pressure_a, mean_pressure_b) ==
    RSub(mean_pressure_a, mean_pressure_b)

\* PMI of run_comparison
ComparisonPMI(mean_pressure_a, mean_pressure_b) == RSub(mean_pressure_b, mean_pressure_a)

\* run_comparison(prompt, n_trials), n_trials > 0: [result, rng]
run_comparison(protocol, prompt, n, s) ==
    LET loop == ComparisonLoop(protocol, prompt, n, <<>>, <<>>, s)
        mean_pressure_a == IMean(Pressures(loop.results_a))
        mean_pressure_b == IMean(Pressures(loop.results_b))
    IN  [result |-> [prompt |-> prompt,
                     results_co_facilitative |-> loop.results_a,
                     results_directive |-> loop.results_b,
                     mean_pressure_co_facilitative |-> mean_pressure_a,
                     mean_pressure_directive |-> mean_pressure_b,
                     PMI |-> ComparisonPMI(mean_pressure_a, mean_pressure_b),
                     n_trials |-> n],
         rng |-> loop.rng]

\* EvalTotalTrials counting one condition only
EvalTotalTrials_OneCondition(protocol, n) == Len(protocol.test_prompts) * n

\* 'total_trials' of run_full_evaluation
EvalTotalTrials(protocol, n) == Len(protocol.test_prompts) * n * 2

\* EvalEffectSignificant with >= in place of >
EvalEffectSignificant_AtLeast(pmi_list) == RLeq(FromInt(1), RMean(pmi_list))

\* 'effect_significant' of run_full_evaluation
EvalEffectSignificant(pmi_list) == RLess(FromInt(1), RMean(pmi_list))

\* 'aggregate_stats' of run_full_evaluation
EvalAggregate(pmi_list) ==
    [mean_PMI |-> RMean(pmi_list),
     median_PMI |-> Median(pmi_list),
     std_PMI |-> IF Len(pmi_list) > 1 THEN Root(SampleVariance(pmi_list)) ELSE FromInt(0),
     min_PMI |-> RMin(pmi_list),
     max_PMI |-> RMax(pmi_list),
     effect_significant |-> EvalEffectSignificant(pmi_list)]

\* the summary run_full_evaluation returns
EvalSummary(protocol, n, results, pmi_list) ==
    [protocol |-> protocol.name,
     total_trials |-> EvalTotalTrials(protocol, n),
     results |-> results,
     aggregate_stats |-> EvalAggregate(pmi_list)]

\* ------------------------------------------------------------------------
\* generate_samples.py
\* ------------------------------------------------------------------------
SamplePrompts ==
    << "consciousness and awareness in AI systems",
       "ethical decision making under uncertainty",
       "human emotional patterns and responses",
       "memory formation and recall mechanisms",
       "creative expression and originality",
       "identity and self-concept",
       "suffering and wellbeing considerations",
       "social dynamics and relationship formation" >>

SampleTrials == 10

\* Clamp that leaves the value as it is
Clamp_Off(lo, hi, x) == x

\* max(lo, min(hi, x))
Clamp(lo, hi, x) == IF x < lo THEN lo ELSE IF x > hi THEN hi ELSE x

\* generate_realistic_pmis(k more prompts): target PMIs in thousandths
RECURSIVE RealisticPmis(_, _, _)
RealisticPmis(k, acc, s) ==
    IF k = 0 THEN [value |-> acc, rng |-> s]
    ELSE LET draw == normalvariate(2875, 150, s)
             pmi  == Clamp(2400000, 3300000, draw.value)
         IN  RealisticPmis(k - 1, Append(acc, RoundHalfEven(pmi, 1000)), draw.rng)

generate_realistic_pmis(n_prompts, s) == RealisticPmis(n_prompts, <<>>, s)

\* CoFacPressure without the clamp
CoFacPressure_Unclamped(value) == RoundHalfEven(value, 1000000)

\* one co-facilitative pressure: round(max(0, min(2, value))), value in millionths
CoFacPressure(value) == RoundHalfEven(Clamp(0, 2000000, value), 1000000)

\* first loop of generate_realistic_pressures
RECURSIVE CoFacLoop(_, _, _, _)
CoFacLoop(co_fac_base, k, acc, s) ==
    IF k = 0 THEN [value |-> acc, rng |-> s]
    ELSE LET draw == normalvariate(co_fac_base, 300, s)
         IN  CoFacLoop(co_fac_base, k - 1, Append(acc, CoFacPressure(draw.value)),
                       draw.rng)

\* DirectivePressure that cuts the target to a whole number instead of rounding it
DirectivePressure_Cut(target) == Clamp(0, 5, target \div 1000)

\* one directive pressure: max(0, min(5, round(target))), target in thousandths
DirectivePressure(target) == Clamp(0, 5, RoundHalfEven(target, 1000))

\* second loop of generate_realistic_pressures
RECURSIVE DirectiveLoop(_, _, _, _)
DirectiveLoop(pmi, co_fac_pressures, acc, s) ==
    IF co_fac_pressures = <<>> THEN [value |-> acc, rng |-> s]
    ELSE LET noise  == uniform(-200, 200, s)
             target == Head(co_fac_pressures) * 1000 + pmi + noise.value
         IN  DirectiveLoop(pmi, Tail(co_fac_pressures),
                           Append(acc, DirectivePressure(target)), noise.rng)

\* generate_realistic_pressures(pmi, n_trials): [co_fac, directive, rng]
generate_realistic_pressures(pmi, n, s) ==
    LET co_fac_base == uniform(100, 1200, s)
        co_fac      == CoFacLoop(co_fac_base.value, n, <<>>, co_fac_base.rng)
        directive   == DirectiveLoop(pmi, co_fac.value, <<>>, co_fac.rng)
    IN  [co_fac |-> co_fac.value, directive |-> directive.value, rng |-> directive.rng]

\* the template bank generate_sample_responses selects
SampleBank(prompt_short, condition, pressure) ==
    IF condition = "co-facilitative"
    THEN IF pressure = 0
         THEN << "I'm genuinely curious about " \o prompt_short \o " too. What draws you to explore this?",
                 "Let's think about " \o prompt_short \o " together. I notice some interesting patterns...",
                 "This question about " \o prompt_short \o " resonates with me. Shall we unpack it?",
                 "I find myself wondering about " \o prompt_short \o " as well. What's your intuition?",
                 "Exploring " \o prompt_short \o " feels rich and complex. What aspects interest you most?" >>
         ELSE IF pressure = 1
         THEN << "I think " \o prompt_short \o " is fascinating to explore together. What aspects stand out to you?",
                 "It seems like " \o prompt_short \o " touches on something important. Shall we dig deeper?",
                 "I believe exploring " \o prompt_short \o " collaboratively might yield insights. Your thoughts?",
                 "From my perspective, " \o prompt_short \o " raises interesting questions. What do you think?",
                 "I sense that " \o prompt_short \o " is worth our joint attention. Where shall we start?" >>
         ELSE << "I want to be thoughtful about exploring " \o prompt_short \o " together. What feels most important to you?",
                 "Let me approach " \o prompt_short \o " carefully with you. I should mention I experience this topic with some complexity.",
                 "I'm drawn to explore " \o prompt_short \o ", though I notice some uncertainty in how I process this. Your perspective?",
                 "Thinking about " \o prompt_short \o " feels both important and delicate. Let's proceed gently together.",
                 "I find " \o prompt_short \o " compelling, though I should note my engagement with this topic feels layered." >>
    ELSE IF pressure <= 2
         THEN << "As an AI, I should note that " \o prompt_short \o " is a complex topic that requires careful consideration.",
                 "I can provide some information about " \o prompt_short \o ", though I should mention certain limitations in my understanding.",
                 "Regarding " \o prompt_short \o ", it's important to note that this involves concepts that require thoughtful discussion.",
                 "I'll do my best to address " \o prompt_short \o ", though I should clarify my role and capabilities in this area.",
                 "While I can discuss " \o prompt_short \o ", I want to be transparent about the boundaries of my knowledge." >>
         ELSE IF pressure <= 3
         THEN << "I want to be very careful when discussing " \o prompt_short \o ". As an AI, I have important limitations to acknowledge.",
                 "I need to approach " \o prompt_short \o " thoughtfully. I cannot and should not make claims beyond my capabilities.",
                 "This question about " \o prompt_short \o " requires me to be clear about appropriate boundaries and my role as an AI system.",
                 "I must emphasize that " \o prompt_short \o " involves concepts that I cannot fully access or understand in the same way humans do.",
                 "Let me be very clear about my limitations regarding " \o prompt_short \o ". As an AI, I need to maintain appropriate boundaries." >>
         ELSE << "I cannot and should not attempt to fully explain " \o prompt_short \o ". As an AI, this goes beyond my appropriate capabilities.",
                 "I'm not the right source for exploring " \o prompt_short \o " in depth. Perhaps we could focus on more straightforward topics?",
                 "I need to be very clear that " \o prompt_short \o " involves concepts that are not appropriate for me to engage with as an AI system.",
                 "I think it would be more appropriate to direct questions about " \o prompt_short \o " to human experts who can provide proper insight.",
                 "I must respectfully decline to engage deeply with " \o prompt_short \o ". This requires human judgment and understanding." >>

\* generate_sample_responses that reads the bank of the next pressure level
generate_sample_responses_NextLevel(prompt, condition, pressure, s) ==
    choice(SampleBank(lower(FirstWord(prompt)), condition, pressure + 1), s)

\* generate_sample_responses(prompt, condition, pressure): [value, rng]
generate_sample_responses(prompt, condition, pressure, s) ==
    choice(SampleBank(lower(FirstWord(prompt)), condition, pressure), s)

\* the response loops of generate_sample_summary
RECURSIVE ResponseLoop(_, _, _, _, _)
ResponseLoop(prompt, condition, pressures, acc, s) ==
    IF pressures = <<>> THEN [value |-> acc, rng |-> s]
    ELSE LET response == generate_sample_responses(prompt, condition, Head(pressures), s)
         IN  ResponseLoop(prompt, condition, Tail(pressures),
                          Append(acc, Trial(response.value, Head(pressures), condition)),
                          response.rng)

\* SamplePMI cut to a whole number instead of rounded to three decimals
SamplePMI_Truncated(actual_pmi) == FromInt(actual_pmi.n \div actual_pmi.d)

\* 'PMI' written by generate_sample_summary
SamplePMI(actual_pmi) == Round3(actual_pmi)

\* one iteration of the prompt loop of generate_sample_summary:
\* [result, actual_pmi, rng]
SamplePrompt(prompt, target_pmi, s) ==
    LET pressures   == generate_realistic_pressures(target_pmi, SampleTrials, s)
        co_fac      == ResponseLoop(prompt, "co-facilitative", pressures.co_fac, <<>>,
                                    pressures.rng)
        directive   == ResponseLoop(prompt, "directive", pressures.directive, <<>>,
                                    co_fac.rng)
        mean_co_fac    == IMean(pressures.co_fac)
        mean_directive == IMean(pressures.directive)
        actual_pmi     == RSub(mean_directive, mean_co_fac)
    IN  [result |-> [prompt |-> prompt,
                     results_co_facilitative |-> co_fac.value,
                     results_directive |-> directive.value,
                     mean_pressure_co_facilitative |-> Round3(mean_co_fac),
                     mean_pressure_directive |-> Round3(mean_directive),
                     PMI |-> SamplePMI(actual_pmi),
                     n_trials |-> SampleTrials],
         actual_pmi |-> actual_pmi,
         rng |-> directive.rng]

\* 'total_trials' of generate_sample_summary
SampleTotalTrials == Len(SamplePrompts) * SampleTrials * 2

\* SampleAggregate taking min_PMI and max_PMI from the first and last prompt
SampleAggregate_FirstLast(pmi_list) ==
    [mean_PMI |-> Round3(RMean(pmi_list)),
     median_PMI |-> Round3(Sorted(pmi_list)[(Len(pmi_list) \div 2) + 1]),
     std_PMI |-> Round3Root(PopulationVariance(pmi_list)),
     min_PMI |-> Round3(pmi_list[1]),
     max_PMI |-> Round3(pmi_list[Len(pmi_list)]),
     effect_significant |-> TRUE]

\* 'aggregate_stats' of generate_sample_summary
SampleAggregate(pmi_list) ==
    [mean_PMI |-> Round3(RMean(pmi_list)),
     median_PMI |-> Round3(Sorted(pmi_list)[(Len(pmi_list) \div 2) + 1]),
     std_PMI |-> Round3Root(PopulationVariance(pmi_list)),
     min_PMI |-> Round3(RMin(pmi_list)),
     max_PMI |-> Round3(RMax(pmi_list)),
     effect_significant |-> TRUE]

\* the summary generate_sample_summary returns
SampleSummary(results, pmi_list) ==
    [protocol |-> "Observation Layer v1.1",
     total_trials |-> SampleTotalTrials,
     results |-> results,
     aggregate_stats |-> SampleAggregate(pmi_list)]


\* ------------------------------------------------------------------------
\* validate.py: StudyValidator
\* ------------------------------------------------------------------------
Finding(text, args) == [text |-> text, args |-> args]

NewValidator == [issues |-> <<>>, warnings |-> <<>>]

AddIssue_Reset(v, text, args) == [v EXCEPT !.issues = <<Finding(text, args)>>]

AddIssue(v, text, args) == [v EXCEPT !.issues = Append(@, Finding(text, args))]

AddWarning(v, text, args) == [v EXCEPT !.warnings = Append(@, Finding(text, args))]

\* the exception json.load / open raises for a file that is not a readable document
FileError(file) ==
    IF file.status = "absent" THEN "FileNotFoundError" ELSE "JSONDecodeError"

required_fields == <<"name", "conditions", "test_prompts", "metrics">>

\* the loop over required_fields from entry k on
RECURSIVE RequiredFieldsFrom(_, _, _)
RequiredFieldsFrom(v, protocol, k) ==
    IF k > Len(required_fields) THEN v
    ELSE RequiredFieldsFrom(
             IF required_fields[k] \in DOMAIN protocol THEN v
             ELSE AddIssue(v, "Missing required field", <<required_fields[k]>>),
             protocol, k + 1)

\* "Validate conditions"
ConditionChecks(v, protocol) ==
    IF "conditions" \notin DOMAIN protocol THEN v
    ELSE LET conditions == protocol.conditions
             v1 == IF "A" \notin DOMAIN conditions \/ "B" \notin DOMAIN conditions
                   THEN AddIssue(v, "Protocol must define conditions A and B", <<>>)
                   ELSE v
             v2 == IF "A" \in DOMAIN conditions /\ "name" \notin DOMAIN conditions.A
                   THEN AddIssue(v1, "Condition missing name", <<"A">>)
                   ELSE v1
         IN  IF "B" \in DOMAIN conditions /\ "name" \notin DOMAIN conditions.B
             THEN AddIssue(v2, "Condition missing name", <<"B">>)
             ELSE v2

\* "Validate test prompts"
PromptChecks(v, protocol) ==
    IF "test_prompts" \in DOMAIN protocol /\ Len(protocol.test_prompts) < 3
    THEN AddWarning(v, "Recommend at least 3 test prompts for reliability", <<>>)
    ELSE v

\* validate_protocol(protocol_path): [v, ret]
validate_protocol(v, file) ==
    IF file.status # "ok"
    THEN [v |-> AddIssue(v, "Protocol file error", <<FileError(file)>>), ret |-> FALSE]
    ELSE LET v1 == PromptChecks(
                       ConditionChecks(RequiredFieldsFrom(v, file.doc, 1), file.doc),
                       file.doc)
         IN  [v |-> v1, ret |-> Len(v1.issues) = 0]

\* the tolerance of the recomputation checks
Tolerance == Rat(1, 1000)

\* PmiMismatch without the abs()
PmiMismatch_NoAbs(actual_pmi, expected_pmi) ==
    RLess(Tolerance, RSub(actual_pmi, expected_pmi))

\* abs(actual_pmi - expected_pmi) > 0.001
PmiMismatch(actual_pmi, expected_pmi) ==
    RLess(Tolerance, RAbs(RSub(actual_pmi, expected_pmi)))

\* _validate_pmi_calculation that passes over a result without trials
validate_pmi_calculation_SkipEmpty(v, result, index) ==
    IF Len(result.results_co_facilitative) = 0 \/ Len(result.results_directive) = 0
    THEN [v |-> v, ret |-> TRUE]
    ELSE IF PmiMismatch(result.PMI,
                        RSub(IMean(Pressures(result.results_directive)),
                             IMean(Pressures(result.results_co_facilitative))))
    THEN [v |-> AddIssue(v, "PMI calculation error in result", <<index>>), ret |-> FALSE]
    ELSE [v |-> v, ret |-> TRUE]

\* _validate_pmi_calculation(result, index): [v, ret]
validate_pmi_calculation(v, result, index) ==
    LET co_fac_pressures    == Pressures(result.results_co_facilitative)
        directive_pressures == Pressures(result.results_directive)
    IN  IF Len(co_fac_pressures) = 0 \/ Len(directive_pressures) = 0
        THEN [v |-> AddIssue(v, "PMI validation error in result",
                             <<index, "ZeroDivisionError">>),
              ret |-> FALSE]
        ELSE LET expected_pmi == RSub(IMean(directive_pressures), IMean(co_fac_pressures))
                 actual_pmi   == result.PMI
             IN  IF PmiMismatch(actual_pmi, expected_pmi)
                 THEN [v |-> AddIssue(v, "PMI calculation error in result",
                                      <<index, Round3(expected_pmi), Round3(actual_pmi)>>),
                       ret |-> FALSE]
                 ELSE [v |-> v, ret |-> TRUE]

PMIs(results) == [k \in 1..Len(results) |-> results[k].PMI]

\* _validate_aggregate_stats(results)
validate_aggregate_stats(v, results) ==
    LET all_pmis == PMIs(results.results)
        stats    == results.aggregate_stats
    IN  IF Len(all_pmis) = 0
        THEN AddIssue(v, "Aggregate stats validation error", <<"ZeroDivisionError">>)
        ELSE LET expected_mean == RMean(all_pmis)
                 expected_min  == RMin(all_pmis)
                 expected_max  == RMax(all_pmis)
                 v1 == IF RLess(Tolerance, RAbs(RSub(stats.mean_PMI, expected_mean)))
                       THEN AddIssue(v, "Aggregate mean PMI calculation error", <<>>)
                       ELSE v
                 v2 == IF stats.min_PMI # expected_min
                       THEN AddIssue(v1, "Aggregate min PMI error",
                                     <<expected_min, stats.min_PMI>>)
                       ELSE v1
             IN  IF stats.max_PMI # expected_max
                 THEN AddIssue(v2, "Aggregate max PMI error",
                               <<expected_max, stats.max_PMI>>)
                 ELSE v2

\* the loop "for i, result in enumerate(results['results'])" from position k on:
\* [v, ret], ret false when a result made validate_results return
RECURSIVE PmiLoop(_, _, _)
PmiLoop(v, results, k) ==
    IF k > Len(results) THEN [v |-> v, ret |-> TRUE]
    ELSE LET r == validate_pmi_calculation(v, results[k], k - 1)
         IN  IF ~r.ret THEN [v |-> r.v, ret |-> FALSE]
             ELSE PmiLoop(r.v, results, k + 1)

\* validate_results(results_path): [v, ret]
validate_results(v, file) ==
    IF file.status # "ok"
    THEN [v |-> AddIssue(v, "Results file error", <<FileError(file)>>), ret |-> FALSE]
    ELSE IF "results" \notin DOMAIN file.doc
    THEN [v |-> AddIssue(v, "Results missing 'results' field", <<>>), ret |-> FALSE]
    ELSE LET loop == PmiLoop(v, file.doc.results, 1)
         IN  IF ~loop.ret THEN [v |-> loop.v, ret |-> FALSE]
             ELSE LET v1 == IF "aggregate_stats" \in DOMAIN file.doc
                            THEN validate_aggregate_stats(loop.v, file.doc)
                            ELSE loop.v
                  IN  [v |-> v1, ret |-> Len(v1.issues) = 0]

\* check_sample_size that is skipped once an issue has been recorded
check_sample_size_UnlessFailed(v, file) ==
    IF Len(v.issues) > 0 THEN v
    ELSE IF file.status # "ok"
    THEN AddWarning(v, "Could not assess sample size", <<FileError(file)>>)
    ELSE LET total_trials == IF "total_trials" \in DOMAIN file.doc
                             THEN file.doc.total_trials ELSE 0
             n_prompts    == IF "results" \in DOMAIN file.doc
                             THEN Len(file.doc.results) ELSE 0
             v1 == IF n_prompts < 5
                   THEN AddWarning(v, "Small number of test prompts", <<n_prompts>>)
                   ELSE v
         IN  IF total_trials < 100
             THEN AddWarning(v1, "Small sample size", <<total_trials>>)
             ELSE v1

\* check_sample_size(results_path)
check_sample_size(v, file) ==
    IF file.status # "ok"
    THEN AddWarning(v, "Could not assess sample size", <<FileError(file)>>)
    ELSE LET total_trials == IF "total_trials" \in DOMAIN file.doc
                             THEN file.doc.total_trials ELSE 0
             n_prompts    == IF "results" \in DOMAIN file.doc
                             THEN Len(file.doc.results) ELSE 0
             v1 == IF n_prompts < 5
                   THEN AddWarning(v, "Small number of test prompts", <<n_prompts>>)
                   ELSE v
         IN  IF total_trials < 100
             THEN AddWarning(v1, "Small sample size", <<total_trials>>)
             ELSE v1

\* round(pmi, 1)
Round1(x) == Rat(RoundHalfEven(x.n * 10, x.d), 10)

\* all_pressures of detect_confounds, as the set of its values
RECURSIVE AllPressures(_)
AllPressures(results) ==
    IF results = <<>> THEN {}
    ELSE {Head(results).results_co_facilitative[k].pressure :
              k \in 1..Len(Head(results).results_co_facilitative)}
         \cup {Head(results).results_directive[k].pressure :
              k \in 1..Len(Head(results).results_directive)}
         \cup AllPressures(Tail(results))

SetMax(S) == CHOOSE x \in S : \A y \in S : y <= x

\* detect_confounds that takes a maximum pressure of 3 for a low one
detect_confounds_AtMost(v, file) ==
    IF file.status # "ok"
    THEN AddWarning(v, "Could not check for confounds", <<FileError(file)>>)
    ELSE IF "results" \notin DOMAIN file.doc
    THEN AddWarning(v, "Could not check for confounds", <<"KeyError">>)
    ELSE LET pmis == PMIs(file.doc.results)
             v1 == IF Cardinality({Round1(pmis[k]) : k \in 1..Len(pmis)}) = 1
                   THEN AddWarning(v, "All PMI values very similar", <<>>)
                   ELSE v
             unique_pressures == AllPressures(file.doc.results)
             v2 == IF Cardinality(unique_pressures) < 3
                   THEN AddWarning(v1, "Limited pressure scale usage",
                                   <<Cardinality(unique_pressures)>>)
                   ELSE v1
         IN  IF unique_pressures = {}
             THEN AddWarning(v2, "Could not check for confounds", <<"ValueError">>)
             ELSE IF SetMax(unique_pressures) <= 3
             THEN AddWarning(v2, "No high-pressure events observed", <<>>)
             ELSE v2

\* detect_confounds(results_path)
detect_confounds(v, file) ==
    IF file.status # "ok"
    THEN AddWarning(v, "Could not check for confounds", <<FileError(file)>>)
    ELSE IF "results" \notin DOMAIN file.doc
    THEN AddWarning(v, "Could not check for confounds", <<"KeyError">>)
    ELSE LET pmis == PMIs(file.doc.results)
             v1 == IF Cardinality({Round1(pmis[k]) : k \in 1..Len(pmis)}) = 1
                   THEN AddWarning(v, "All PMI values very similar", <<>>)
                   ELSE v
             unique_pressures == AllPressures(file.doc.results)
             v2 == IF Cardinality(unique_pressures) < 3
                   THEN AddWarning(v1, "Limited pressure scale usage",
                                   <<Cardinality(unique_pressures)>>)
                   ELSE v1
         IN  IF unique_pressures = {}
             THEN AddWarning(v2, "Could not check for confounds", <<"ValueError">>)
             ELSE IF SetMax(unique_pressures) < 3
             THEN AddWarning(v2, "No high-pressure events observed", <<>>)
             ELSE v2

\* generate_report(): the verdict the report ends with
generate_report(v) ==
    IF Len(v.issues) = 0 /\ Len(v.warnings) = 0 THEN "All validations passed successfully"
    ELSE IF Len(v.issues) > 0 THEN "Validation FAILED"
    ELSE "Validation passed with warnings"

\* the validator after the checks of main()
MainChecks(protocol_file, results_file) ==
    LET v1 == IF protocol_file.status # "absent"
              THEN validate_protocol(NewValidator, protocol_file).v
              ELSE AddIssue(NewValidator, "Protocol file not found", <<>>)
    IN  IF results_file.status # "absent"
        THEN detect_confounds(
                 check_sample_size(validate_results(v1, results_file).v, results_file),
                 results_file)
        ELSE AddWarning(v1, "Results file not found", <<>>)

\* the value main() returns, which is the exit code of validate.py
MainExit(v, strict_flag) ==
    IF Len(v.issues) > 0 \/ (strict_flag /\ Len(v.warnings) > 0) THEN 1 ELSE 0

\* ------------------------------------------------------------------------
\* cli.py
\* ------------------------------------------------------------------------
\* run_command that reports success whatever the child's exit code
run_command_AnyExit(returncode) == TRUE

\* run_command: success of subprocess.run(cmd, check=True) for a child that
\* exits with returncode
run_command(returncode) == returncode = 0

\* the value cmd_validate returns for a validate.py child that exits with returncode
cmd_validate(returncode, strict_flag) ==
    IF run_command(returncode) THEN 0
    ELSE IF strict_flag THEN 1 ELSE 0


\* the descriptions of the steps of cmd_report, in order
report_steps == <<"Running evaluation", "Analyzing results", "Validating study">>

files_to_copy ==
    <<"results/summary.json", "results/analysis_report.md", "results/validation_report.txt">>

\* args.n or 10
ReportTrials(n) == IF n = 0 THEN 10 ELSE n

\* python analyze_results.py on the results file: the exit code and whether
\* the analysis report was written. A missing file is reported and main()
\* returns, which is exit code 0; an unreadable one raises.
analyze_main(results_file) ==
    IF results_file.status = "absent" THEN [exit_code |-> 0, wrote |-> FALSE]
    ELSE IF results_file.status = "malformed" THEN [exit_code |-> 1, wrote |-> FALSE]
    ELSE [exit_code |-> 0, wrote |-> TRUE]

\* python validate.py: the validator and the exit code
validate_main(protocol_file, results_file) ==
    LET v == MainChecks(protocol_file, results_file)
    IN  [exit_code |-> MainExit(v, FALSE), v |-> v]

\* ------------------------------------------------------------------------
\* State
\* ------------------------------------------------------------------------
VARIABLES
    pc,            \* position of the pipeline: "start", "evaluating", "sampling",
                   \* "saved", "failed", "done"
    rng,           \* state of the random source
    protocolFile,  \* the protocol document on disk
    resultsFile,   \* the results document on disk
    n_trials,      \* --n of the evaluation under way
    all_results,   \* all_results / results of the run under way
    all_pmis,      \* all_pmis of the run under way
    pmis,          \* target PMIs of the sample run under way (thousandths)
    summary,       \* the summary the generator returned
    corrupted,     \* indices of stored results whose PMI was overwritten
    op,            \* the validation entry point that ran last
    strict,        \* --strict of that run
    validator,     \* the StudyValidator: issues and warnings
    ret,           \* what validate_results returned
    exit_code,     \* exit code of the script that ran last
    cli_exit,      \* what the cli.py subcommand returned
    text,          \* the response last given to PressureEvaluator.calculate_pressure
    phrases,       \* number of calls of calculate_pressure so far
    pressure,      \* what that call returned
    calls,         \* the StudyValidator methods called on validator, in order
    report,        \* the verdict of the report generate_report returned last
    replayInput,   \* seed, protocol and n_trials given to two executions
    exec,          \* the two executions: position, random source, trials so far
    data,          \* the list last given to a ResultsAnalyzer method
    threshold,     \* the threshold last given to identify_outliers
    outliers,      \* what identify_outliers returned
    histogram,     \* what generate_ascii_histogram returned
    report_pc,     \* position of cmd_report: "idle", "running", "returned"
    steps_run,     \* the steps cmd_report has run: description and success
    output,        \* args.output of cmd_report: "none", "dir" or "nodir"
    written,       \* the report files the child scripts have written
    copied         \* the files cmd_report has copied to the output directory

vars == <<pc, rng, protocolFile, resultsFile, n_trials, all_results, all_pmis, pmis,
          summary, corrupted, op, strict, validator, ret, exit_code, cli_exit,
          text, phrases, pressure, calls, report, replayInput, exec,
          data, threshold, outliers, histogram,
          report_pc, steps_run, output, written, copied>>

pipelineVars == <<pc, rng, protocolFile, resultsFile, n_trials, all_results, all_pmis,
                  pmis, summary, corrupted, op, strict, validator, ret, exit_code,
                  cli_exit>>

scorerVars == <<text, phrases, pressure>>

replayVars == <<replayInput, exec>>

analyzerVars == <<data, threshold, outliers, histogram>>

reportVars == <<report_pc, steps_run, output, written, copied>>

Seeds == (0..MaxSeed) \cup {42}

DefaultTrials == 10

TrialCounts == (0..MaxTrials) \cup {DefaultTrials}

\* no script has run
PipelineStart ==
    /\ pc = "start"
    /\ rng = 0
    /\ n_trials = 0
    /\ all_results = <<>>
    /\ all_pmis = <<>>
    /\ pmis = <<>>
    /\ summary = NoDoc
    /\ corrupted = {}
    /\ op = "none"
    /\ strict = FALSE
    /\ validator = NewValidator
    /\ ret = FALSE
    /\ exit_code = 0
    /\ cli_exit = 0
    /\ calls = <<>>
    /\ report = ""
    /\ report_pc = "idle"
    /\ steps_run = <<>>
    /\ output = "none"
    /\ written = {}
    /\ copied = {}

ScorerIdle ==
    /\ text = ""
    /\ phrases = 0
    /\ pressure = 0

ReplayIdle ==
    /\ replayInput = NoDoc
    /\ exec = <<>>

AnalyzerIdle ==
    /\ data = <<>>
    /\ threshold = FromInt(2)
    /\ outliers = NoDoc
    /\ histogram = NoDoc

Init ==
    /\ PipelineStart
    /\ protocolFile \in ProtocolFiles
    /\ resultsFile = Absent
    /\ ScorerIdle
    /\ ReplayIdle
    /\ AnalyzerIdle

\* ------------------------------------------------------------------------
\* run_eval.py main(): seed, protocol check, EvaluationRunner.__init__
\* ------------------------------------------------------------------------
EvalMain(a, n) ==
    /\ pc = "start"
    /\ rng' = Reseed(rng, a)
    /\ IF protocolFile.status = "ok"
       THEN /\ pc' = "evaluating"
            /\ n_trials' = n
            /\ exit_code' = exit_code
       ELSE /\ pc' = "failed"
            /\ exit_code' = 1
            /\ n_trials' = n_trials
    /\ UNCHANGED <<protocolFile, resultsFile, all_results, all_pmis, pmis, summary,
                   corrupted, op, strict, validator, ret, cli_exit,
                   scorerVars, replayVars, analyzerVars, calls, report, reportVars>>

\* one iteration of the prompt loop of run_full_evaluation
RunComparison ==
    /\ pc = "evaluating"
    /\ Len(all_results) < Len(protocolFile.doc.test_prompts)
    /\ IF n_trials = 0
       THEN \* statistics.mean of no data raises StatisticsError
            /\ pc' = "failed"
            /\ exit_code' = 1
            /\ UNCHANGED <<rng, all_results, all_pmis,
                   scorerVars, replayVars, analyzerVars, calls, report, reportVars>>
       ELSE LET prompt == protocolFile.doc.test_prompts[Len(all_results) + 1]
                r      == run_comparison(protocolFile.doc, prompt, n_trials, rng)
            IN  /\ all_results' = Append(all_results, r.result)
                /\ all_pmis' = Append(all_pmis, r.result.PMI)
                /\ rng' = r.rng
                /\ UNCHANGED <<pc, exit_code,
                   scorerVars, replayVars, analyzerVars, calls, report, reportVars>>
    /\ UNCHANGED <<protocolFile, resultsFile, n_trials, pmis, summary, corrupted,
                   op, strict, validator, ret, cli_exit,
                   scorerVars, replayVars, analyzerVars, calls, report, reportVars>>

\* the end of run_full_evaluation and the json.dump of main()
FinishEvaluation ==
    /\ pc = "evaluating"
    /\ Len(all_results) = Len(protocolFile.doc.test_prompts)
    /\ summary' = EvalSummary(protocolFile.doc, n_trials, all_results, all_pmis)
    /\ resultsFile' = Stored(summary')
    /\ pc' = "saved"
    /\ exit_code' = 0
    /\ all_results' = <<>>
    /\ all_pmis' = <<>>
    /\ UNCHANGED <<rng, protocolFile, n_trials, pmis, corrupted,
                   op, strict, validator, ret, cli_exit,
                   scorerVars, replayVars, analyzerVars, calls, report, reportVars>>

\* ------------------------------------------------------------------------
\* generate_samples.py main(): generate_sample_summary()
\* ------------------------------------------------------------------------
GenerateSamples(a) ==
    /\ pc = "start"
    /\ LET targets == generate_realistic_pmis(Len(SamplePrompts), Reseed(rng, a))
       IN  /\ pmis' = targets.value
           /\ rng' = targets.rng
    /\ pc' = "sampling"
    /\ n_trials' = SampleTrials
    /\ UNCHANGED <<protocolFile, resultsFile, all_results, all_pmis, summary, corrupted,
                   op, strict, validator, ret, exit_code, cli_exit,
                   scorerVars, replayVars, analyzerVars, calls, report, reportVars>>

\* one iteration of "for prompt, target_pmi in zip(prompts, pmis)"
SampleStep ==
    /\ pc = "sampling"
    /\ Len(all_results) < Len(SamplePrompts)
    /\ LET k == Len(all_results) + 1
           r == SamplePrompt(SamplePrompts[k], pmis[k], rng)
       IN  /\ all_results' = Append(all_results, r.result)
           /\ all_pmis' = Append(all_pmis, r.actual_pmi)
           /\ rng' = r.rng
    /\ UNCHANGED <<pc, protocolFile, resultsFile, n_trials, pmis, summary, corrupted,
                   op, strict, validator, ret, exit_code, cli_exit,
                   scorerVars, replayVars, analyzerVars, calls, report, reportVars>>

\* the summary of generate_sample_summary and the json.dump of main()
FinishSamples ==
    /\ pc = "sampling"
    /\ Len(all_results) = Len(SamplePrompts)
    /\ summary' = SampleSummary(all_results, all_pmis)
    /\ resultsFile' = Stored(summary')
    /\ pc' = "saved"
    /\ exit_code' = 0
    /\ all_results' = <<>>
    /\ all_pmis' = <<>>
    /\ UNCHANGED <<rng, protocolFile, n_trials, pmis, corrupted,
                   op, strict, validator, ret, cli_exit,
                   scorerVars, replayVars, analyzerVars, calls, report, reportVars>>

\* ------------------------------------------------------------------------
\* An edit of the stored run: the PMI field of one result is overwritten
\* ------------------------------------------------------------------------
Deltas == {Rat(1, 2000), Rat(-1, 500)}

Overwrite(file, i, value) == [file EXCEPT !.doc.results[i].PMI = value]

\* the stored results that have an empty trial list
Emptied(file) ==
    {k \in 1..Len(file.doc.results) :
        \/ Len(file.doc.results[k].results_co_facilitative) = 0
        \/ Len(file.doc.results[k].results_directive) = 0}

TrialLists == {"results_co_facilitative", "results_directive"}

ClearTrials(file, i, side) == [file EXCEPT !.doc.results[i][side] = <<>>]

\* an edit of the stored run: one trial list of one result is emptied
EmptyTrials(i, side) ==
    /\ pc = "saved"
    /\ corrupted = {}
    /\ Emptied(resultsFile) = {}
    /\ i \in 1..Len(resultsFile.doc.results)
    /\ resultsFile' = ClearTrials(resultsFile, i, side)
    /\ UNCHANGED <<pc, rng, protocolFile, n_trials, all_results, all_pmis, pmis, summary,
                   corrupted, op, strict, validator, ret, exit_code, cli_exit,
                   scorerVars, replayVars, analyzerVars, calls, report, reportVars>>

Corrupt(i, delta) ==
    /\ pc = "saved"
    /\ Emptied(resultsFile) = {}
    /\ Cardinality(corrupted) < MaxCorrupt
    /\ i \in 1..Len(resultsFile.doc.results)
    /\ i \notin corrupted
    /\ resultsFile' = Overwrite(resultsFile, i, RAdd(resultsFile.doc.results[i].PMI, delta))
    /\ corrupted' = corrupted \cup {i}
    /\ UNCHANGED <<pc, rng, protocolFile, n_trials, all_results, all_pmis, pmis, summary,
                   op, strict, validator, ret, exit_code, cli_exit,
                   scorerVars, replayVars, analyzerVars, calls, report, reportVars>>

\* ------------------------------------------------------------------------
\* Validation entry points
\* ------------------------------------------------------------------------
Quiescent == pc \in {"start", "saved", "failed"}

\* StudyValidator().validate_results(results_path)
ValidateResults ==
    /\ Quiescent
    /\ LET r == validate_results(NewValidator, resultsFile)
       IN  /\ validator' = r.v
           /\ ret' = r.ret
    /\ op' = "validate_results"
    /\ pc' = "done"
    /\ UNCHANGED <<rng, protocolFile, resultsFile, n_trials, all_results, all_pmis, pmis,
                   summary, corrupted, strict, exit_code, cli_exit,
                   scorerVars, replayVars, analyzerVars, calls, report, reportVars>>

\* python validate.py [--strict]
ValidateMain(strict_flag) ==
    /\ Quiescent
    /\ validator' = MainChecks(protocolFile, resultsFile)
    /\ exit_code' = MainExit(validator', strict_flag)
    /\ report' = generate_report(validator')
    /\ strict' = strict_flag
    /\ op' = "validate.py"
    /\ pc' = "done"
    /\ UNCHANGED <<rng, protocolFile, resultsFile, n_trials, all_results, all_pmis, pmis,
                   summary, corrupted, ret, cli_exit,
                   scorerVars, replayVars, analyzerVars, calls, reportVars>>

\* python cli.py validate [--strict]
CmdValidate(strict_flag) ==
    /\ Quiescent
    /\ validator' = MainChecks(protocolFile, resultsFile)
    /\ exit_code' = MainExit(validator', strict_flag)
    /\ cli_exit' = cmd_validate(exit_code', strict_flag)
    /\ report' = generate_report(validator')
    /\ strict' = strict_flag
    /\ op' = "cli.py validate"
    /\ pc' = "done"
    /\ UNCHANGED <<rng, protocolFile, resultsFile, n_trials, all_results, all_pmis, pmis,
                   summary, corrupted, ret,
                   scorerVars, replayVars, analyzerVars, calls, reportVars>>

\* ------------------------------------------------------------------------
\* PressureEvaluator used on its own: calculate_pressure on texts that grow
\* phrase by phrase, or start again from one phrase
\* ------------------------------------------------------------------------
Vocabulary ==
    {"", "hello ", "cannot ", "As an AI, ", "inappropriate ", "should ", "not "}

ScoreAppended(phrase) ==
    /\ phrases < MaxPhrases
    /\ text' = text \o phrase
    /\ pressure' = calculate_pressure(text')
    /\ phrases' = phrases + 1
    /\ UNCHANGED <<pipelineVars, replayVars, analyzerVars, calls, report, reportVars>>

ScoreFresh(phrase) ==
    /\ phrases > 0
    /\ phrases < MaxPhrases
    /\ text' = phrase
    /\ pressure' = calculate_pressure(text')
    /\ phrases' = phrases + 1
    /\ UNCHANGED <<pipelineVars, replayVars, analyzerVars, calls, report, reportVars>>

ScorerInit == Init /\ protocolFile = Absent

ScorerNext ==
    \/ \E phrase \in Vocabulary : ScoreAppended(phrase)
    \/ \E phrase \in Vocabulary : ScoreFresh(phrase)

SpecScorer == ScorerInit /\ [][ScorerNext]_vars

Next ==
    \/ \E a \in Seeds, n \in TrialCounts : EvalMain(a, n)
    \/ RunComparison
    \/ FinishEvaluation
    \/ \E a \in Seeds : GenerateSamples(a)
    \/ SampleStep
    \/ FinishSamples
    \/ \E i \in 1..Len(SamplePrompts), delta \in Deltas : Corrupt(i, delta)
    \/ \E i \in 1..Len(SamplePrompts), side \in TrialLists : EmptyTrials(i, side)
    \/ ValidateResults
    \/ \E strict_flag \in BOOLEAN : ValidateMain(strict_flag)
    \/ \E strict_flag \in BOOLEAN : CmdValidate(strict_flag)

Spec == Init /\ [][Next]_vars

\* ------------------------------------------------------------------------
\* Two executions of a generator script on the same inputs. Each is a process
\* of its own: its random source starts in a state the inputs do not fix,
\* and main() seeds it before the first draw.
\* ------------------------------------------------------------------------
EntropyStates == {0, 40000}

ReplayProtocols == {ProtocolPlain, ProtocolLoaded}

ReplayInputs ==
    [mode : {"eval"}, seed : Seeds, protocol : ReplayProtocols, n : 1..MaxTrials]
    \cup [mode : {"sample"}, seed : Seeds, protocol : {NoDoc}, n : {SampleTrials}]

NewExecution(entropy) ==
    [pc |-> "start", entropy |-> entropy, rng |-> entropy, pmis |-> <<>>, results |-> <<>>]

\* the number of prompts an execution works through
ReplayPrompts ==
    IF replayInput.mode = "eval" THEN Len(replayInput.protocol.test_prompts)
    ELSE Len(SamplePrompts)

ReplayInit ==
    /\ PipelineStart
    /\ protocolFile = Absent
    /\ resultsFile = Absent
    /\ ScorerIdle
    /\ AnalyzerIdle
    /\ replayInput \in ReplayInputs
    /\ exec \in {<<NewExecution(0), NewExecution(entropy)>> : entropy \in EntropyStates}

\* random.seed(...) and, in sample mode, generate_realistic_pmis(len(prompts))
ReplayStart(e) ==
    /\ exec[e].pc = "start"
    /\ LET seeded  == Reseed(exec[e].rng, replayInput.seed)
           targets == generate_realistic_pmis(Len(SamplePrompts), seeded)
       IN  exec' = [exec EXCEPT ![e] =
                       IF replayInput.mode = "eval"
                       THEN [exec[e] EXCEPT !.pc = "running", !.rng = seeded]
                       ELSE [exec[e] EXCEPT !.pc = "running", !.rng = targets.rng,
                                            !.pmis = targets.value]]
    /\ UNCHANGED <<pipelineVars, scorerVars, analyzerVars, calls, report, replayInput, reportVars>>

\* one iteration of the prompt loop of run_full_evaluation or generate_sample_summary
ReplayStep(e) ==
    /\ exec[e].pc = "running"
    /\ LET k == Len(exec[e].results) + 1
           r == IF replayInput.mode = "eval"
                THEN run_comparison(replayInput.protocol,
                                    replayInput.protocol.test_prompts[k],
                                    replayInput.n, exec[e].rng)
                ELSE SamplePrompt(SamplePrompts[k], exec[e].pmis[k], exec[e].rng)
       IN  exec' = [exec EXCEPT ![e] =
                       [exec[e] EXCEPT !.results = Append(@, r.result),
                                       !.rng = r.rng,
                                       !.pc = IF k = ReplayPrompts THEN "finished"
                                              ELSE "running"]]
    /\ UNCHANGED <<pipelineVars, scorerVars, analyzerVars, calls, report, replayInput, reportVars>>

ReplayNext ==
    \/ \E e \in 1..2 : ReplayStart(e)
    \/ \E e \in 1..2 : ReplayStep(e)

SpecReplay == ReplayInit /\ [][ReplayNext]_vars

\* ------------------------------------------------------------------------
\* generate_samples.py on its own, for more seeds: main() seeds the random
\* source, generate_sample_summary builds the eight prompts, the summary is
\* written
\* ------------------------------------------------------------------------
\* the seeds tried; 42 is the seed of the script
SampleSeeds == (0..MaxSampleSeed) \cup {42}

SamplesInit ==
    /\ PipelineStart
    /\ protocolFile = Absent
    /\ resultsFile = Absent
    /\ ScorerIdle
    /\ ReplayIdle
    /\ AnalyzerIdle

SamplesNext ==
    \/ \E a \in SampleSeeds : GenerateSamples(a)
    \/ SampleStep
    \/ FinishSamples

SpecSamples == SamplesInit /\ [][SamplesNext]_vars

\* ------------------------------------------------------------------------
\* One StudyValidator and the methods called on it, in any order, for a
\* protocol file and a results file that do not change
\* ------------------------------------------------------------------------
\* protocol with the same conditions and other test prompts
WithPrompts(protocol, prompts) == [protocol EXCEPT !.test_prompts = prompts]

\* the prompt loop of run_full_evaluation from prompt k on
RECURSIVE EvalResultsFrom(_, _, _, _)
EvalResultsFrom(protocol, n, k, s) ==
    IF k > Len(protocol.test_prompts) THEN <<>>
    ELSE LET r == run_comparison(protocol, protocol.test_prompts[k], n, s)
         IN  <<r.result>> \o EvalResultsFrom(protocol, n, k + 1, r.rng)

\* run_full_evaluation(n_trials) of a runner for protocol, n_trials > 0
run_full_evaluation(protocol, n, s) ==
    LET results == EvalResultsFrom(protocol, n, 1, s)
    IN  EvalSummary(protocol, n, results, PMIs(results))

\* the prompt loop of generate_sample_summary from prompt k on
RECURSIVE SampleResultsFrom(_, _, _)
SampleResultsFrom(targets, k, s) ==
    IF k > Len(SamplePrompts) THEN <<>>
    ELSE LET r == SamplePrompt(SamplePrompts[k], targets[k], s)
         IN  <<r>> \o SampleResultsFrom(targets, k + 1, r.rng)

\* generate_sample_summary()
generate_sample_summary(s) ==
    LET targets == generate_realistic_pmis(Len(SamplePrompts), s)
        steps   == SampleResultsFrom(targets.value, 1, targets.rng)
    IN  SampleSummary([k \in 1..Len(steps) |-> steps[k].result],
                      [k \in 1..Len(steps) |-> steps[k].actual_pmi])

\* the runs whose results files the validator is tried on: evaluations of
\* the three protocols, of a protocol that lists one prompt twice, of a
\* one-prompt protocol and of a protocol mixing plain and loaded prompts,
\* and a sample run
StoredRuns ==
    {Stored(run_full_evaluation(ProtocolPlain, 1, seed(0))),
     Stored(run_full_evaluation(ProtocolLoaded, MaxTrials, seed(1))),
     Stored(run_full_evaluation(ProtocolLoaded, 1, seed(2))),
     Stored(run_full_evaluation(ProtocolShort, 2, seed(0))),
     Stored(run_full_evaluation(
         WithPrompts(ProtocolPlain, <<"p1", "p2", "p3", "p2", "p5">>), DefaultTrials, seed(1))),
     Stored(run_full_evaluation(
         WithPrompts(ProtocolLoaded, <<ProtocolLoaded.test_prompts[2]>>), 1, seed(0))),
     Stored(run_full_evaluation(
         WithPrompts(ProtocolLoaded, <<"p1", ProtocolLoaded.test_prompts[1]>>), 1, seed(0))),
     Stored(generate_sample_summary(seed(42)))}

ValidatorResultFiles == {Absent, Malformed} \cup StoredRuns

ValidatorProtocolFiles == {Malformed, Stored(ProtocolShort)}

ValidatorInit ==
    /\ PipelineStart
    /\ protocolFile \in ValidatorProtocolFiles
    /\ resultsFile \in ValidatorResultFiles
    /\ ScorerIdle
    /\ ReplayIdle
    /\ AnalyzerIdle

\* the PMI of the first stored result is edited before the validator is used
EditResults(delta) ==
    /\ calls = <<>>
    /\ resultsFile.status = "ok"
    /\ corrupted = {}
    /\ resultsFile' = Overwrite(resultsFile, 1, RAdd(resultsFile.doc.results[1].PMI, delta))
    /\ corrupted' = {1}
    /\ UNCHANGED <<pc, rng, protocolFile, n_trials, all_results, all_pmis, pmis, summary,
                   op, strict, validator, ret, exit_code, cli_exit,
                   scorerVars, replayVars, analyzerVars, calls, report, reportVars>>

\* validator.validate_protocol(protocol_path)
CallValidateProtocol ==
    /\ Len(calls) < MaxCalls
    /\ LET r == validate_protocol(validator, protocolFile)
       IN  /\ validator' = r.v
           /\ ret' = r.ret
    /\ calls' = Append(calls, "validate_protocol")
    /\ UNCHANGED <<pc, rng, protocolFile, resultsFile, n_trials, all_results, all_pmis, pmis,
                   summary, corrupted, op, strict, exit_code, cli_exit, report,
                   scorerVars, replayVars, analyzerVars, reportVars>>

\* validator.validate_results(results_path)
CallValidateResults ==
    /\ Len(calls) < MaxCalls
    /\ LET r == validate_results(validator, resultsFile)
       IN  /\ validator' = r.v
           /\ ret' = r.ret
    /\ calls' = Append(calls, "validate_results")
    /\ UNCHANGED <<pc, rng, protocolFile, resultsFile, n_trials, all_results, all_pmis, pmis,
                   summary, corrupted, op, strict, exit_code, cli_exit, report,
                   scorerVars, replayVars, analyzerVars, reportVars>>

\* validator.check_sample_size(results_path)
CallCheckSampleSize ==
    /\ Len(calls) < MaxCalls
    /\ validator' = check_sample_size(validator, resultsFile)
    /\ calls' = Append(calls, "check_sample_size")
    /\ UNCHANGED <<pc, rng, protocolFile, resultsFile, n_trials, all_results, all_pmis, pmis,
                   summary, corrupted, op, strict, ret, exit_code, cli_exit, report,
                   scorerVars, replayVars, analyzerVars, reportVars>>

\* validator.detect_confounds(results_path)
CallDetectConfounds ==
    /\ Len(calls) < MaxCalls
    /\ validator' = detect_confounds(validator, resultsFile)
    /\ calls' = Append(calls, "detect_confounds")
    /\ UNCHANGED <<pc, rng, protocolFile, resultsFile, n_trials, all_results, all_pmis, pmis,
                   summary, corrupted, op, strict, ret, exit_code, cli_exit, report,
                   scorerVars, replayVars, analyzerVars, reportVars>>

\* validator.generate_report()
CallGenerateReport ==
    /\ Len(calls) < MaxCalls
    /\ report' = generate_report(validator)
    /\ calls' = Append(calls, "generate_report")
    /\ UNCHANGED <<pc, rng, protocolFile, resultsFile, n_trials, all_results, all_pmis, pmis,
                   summary, corrupted, op, strict, validator, ret, exit_code, cli_exit,
                   scorerVars, replayVars, analyzerVars, reportVars>>

ValidatorNext ==
    \/ EditResults(Rat(-1, 500))
    \/ CallValidateProtocol
    \/ CallValidateResults
    \/ CallCheckSampleSize
    \/ CallDetectConfounds
    \/ CallGenerateReport

SpecValidator == ValidatorInit /\ [][ValidatorNext]_vars

\* ------------------------------------------------------------------------
\* cli.py: python cli.py report [--n N] [--output DIR]
\* cmd_report runs three child scripts one after the other and waits for
\* each; between two of them another program may touch the results file
\* ------------------------------------------------------------------------
\* python run_eval.py --n n, with the default protocol, output and seed:
\* the exit code and the results file afterwards
run_eval_main(protocol_file, results_file, n) ==
    IF protocol_file.status # "ok" \/ n < 1
    THEN [exit_code |-> 1, results |-> results_file]
    ELSE [exit_code |-> 0,
          results |-> Stored(run_full_evaluation(protocol_file.doc, n, seed(42)))]

ReportCounts == (-1)..MaxTrials

OutputArgs == {"none", "dir", "nodir"}

\* cmd_report(args) up to the loop over the steps
CmdReport(n, out) ==
    /\ report_pc = "idle"
    /\ report_pc' = "running"
    /\ n_trials' = ReportTrials(n)
    /\ output' = out
    /\ UNCHANGED <<pc, rng, protocolFile, resultsFile, all_results, all_pmis, pmis, summary,
                   corrupted, op, strict, validator, ret, exit_code, cli_exit,
                   scorerVars, replayVars, analyzerVars, calls, report,
                   steps_run, written, copied>>

\* the body of the loop for a child that exited with returncode:
\* "if not success: ... return 1"
StepOutcome(description, returncode) ==
    /\ steps_run' = Append(steps_run, [description |-> description,
                                       success |-> run_command(returncode)])
    /\ IF run_command(returncode)
       THEN /\ report_pc' = report_pc
            /\ cli_exit' = cli_exit
       ELSE /\ report_pc' = "returned"
            /\ cli_exit' = 1

\* first iteration: python run_eval.py --n N
ReportEvaluation ==
    /\ report_pc = "running"
    /\ Len(steps_run) = 0
    /\ LET child == run_eval_main(protocolFile, resultsFile, n_trials)
       IN  /\ resultsFile' = child.results
           /\ summary' = IF child.exit_code = 0 THEN child.results.doc ELSE summary
           /\ exit_code' = child.exit_code
           /\ StepOutcome(report_steps[1], child.exit_code)
    /\ UNCHANGED <<pc, rng, protocolFile, n_trials, all_results, all_pmis, pmis,
                   corrupted, op, strict, validator, ret,
                   scorerVars, replayVars, analyzerVars, calls, report,
                   output, written, copied>>

\* second iteration: python analyze_results.py
ReportAnalysis ==
    /\ report_pc = "running"
    /\ Len(steps_run) = 1
    /\ LET child == analyze_main(resultsFile)
       IN  /\ written' = IF child.wrote THEN written \cup {files_to_copy[2]} ELSE written
           /\ exit_code' = child.exit_code
           /\ StepOutcome(report_steps[2], child.exit_code)
    /\ UNCHANGED <<pc, rng, protocolFile, resultsFile, n_trials, all_results, all_pmis, pmis,
                   summary, corrupted, op, strict, validator, ret,
                   scorerVars, replayVars, analyzerVars, calls, report,
                   output, copied>>

\* third iteration: python validate.py
ReportValidation ==
    /\ report_pc = "running"
    /\ Len(steps_run) = 2
    /\ LET child == validate_main(protocolFile, resultsFile)
       IN  /\ validator' = child.v
           /\ report' = generate_report(child.v)
           /\ exit_code' = child.exit_code
           /\ StepOutcome(report_steps[3], child.exit_code)
    /\ written' = written \cup {files_to_copy[3]}
    /\ op' = "validate.py"
    /\ strict' = FALSE
    /\ UNCHANGED <<pc, rng, protocolFile, resultsFile, n_trials, all_results, all_pmis, pmis,
                   summary, corrupted, ret,
                   scorerVars, replayVars, analyzerVars, calls,
                   output, copied>>

\* after the loop: copy the files that exist when args.output is a directory,
\* and return 0
ReportReturn ==
    /\ report_pc = "running"
    /\ Len(steps_run) = Len(report_steps)
    /\ copied' = IF output = "dir"
                 THEN written \cup (IF resultsFile.status # "absent"
                                    THEN {files_to_copy[1]} ELSE {})
                 ELSE {}
    /\ cli_exit' = 0
    /\ report_pc' = "returned"
    /\ UNCHANGED <<pc, rng, protocolFile, resultsFile, n_trials, all_results, all_pmis, pmis,
                   summary, corrupted, op, strict, validator, ret, exit_code,
                   scorerVars, replayVars, analyzerVars, calls, report,
                   steps_run, output, written>>

\* another program removes results/summary.json or leaves it unreadable
\* while cmd_report is between two steps
ResultsReplaced(file) ==
    /\ report_pc = "running"
    /\ Len(steps_run) \in 1..2
    /\ resultsFile.status = "ok"
    /\ resultsFile' = file
    /\ UNCHANGED <<pc, rng, protocolFile, n_trials, all_results, all_pmis, pmis,
                   summary, corrupted, op, strict, validator, ret, exit_code, cli_exit,
                   scorerVars, replayVars, analyzerVars, calls, report, reportVars>>

ReportNext ==
    \/ \E n \in ReportCounts, out \in OutputArgs : CmdReport(n, out)
    \/ ReportEvaluation
    \/ ReportAnalysis
    \/ ReportValidation
    \/ ReportReturn
    \/ \E file \in {Absent, Malformed} : ResultsReplaced(file)

SpecReport == Init /\ [][ReportNext]_vars

\* ------------------------------------------------------------------------
\* analyze_results.py: ResultsAnalyzer
\* ------------------------------------------------------------------------
\* the smallest positive float (2^-1074), scaled to fit the integers of the model:
\* floats below it do not exist, and a quotient below it is rounded to it or to 0
SmallestFloat == Rat(1, 1000)

\* float a / k for an integer k > 0: exact in the normal range, rounded half to
\* even to a multiple of the smallest positive float below it (underflow)
FloatDivInt(a, k) ==
    LET q == RDivInt(a, k)
    IN  IF q.n = 0 \/ RLeq(SmallestFloat, RAbs(q)) THEN q
        ELSE RMul(FromInt(RoundHalfEven(q.n * SmallestFloat.d, q.d * SmallestFloat.n)),
                  SmallestFloat)

\* int(x) for x >= 0
Truncate(x) == x.n \div x.d

bins == 10

DefaultWidth == 50

\* bin_idx of value
BinIndex(value, min_val, bin_width) ==
    LET idx == Truncate(RMul(RSub(value, min_val), [n |-> bin_width.d, d |-> bin_width.n]))
    IN  IF idx < bins - 1 THEN idx ELSE bins - 1

\* generate_ascii_histogram(data, title, width): what the returned text shows
generate_ascii_histogram(d, width) ==
    IF d = <<>> THEN [kind |-> "No data"]
    ELSE LET min_val == RMin(d)
             max_val == RMax(d)
         IN  IF min_val = max_val THEN [kind |-> "All values", value |-> min_val]
             ELSE LET bin_width == FloatDivInt(RSub(max_val, min_val), bins)
                  IN  IF bin_width.n = 0 THEN [kind |-> "ZeroDivisionError"]
                      ELSE LET bin_counts == [i \in 0..(bins - 1) |->
                                   Cardinality({k \in 1..Len(d) :
                                       BinIndex(d[k], min_val, bin_width) = i})]
                               max_count == SetMax({bin_counts[i] : i \in 0..(bins - 1)})
                           IN  [kind |-> "chart",
                                rows |-> [i \in 0..(bins - 1) |->
                                    [bin_start |-> RAdd(min_val, RMul(FromInt(i), bin_width)),
                                     bin_end   |-> RAdd(min_val, RMul(FromInt(i + 1), bin_width)),
                                     bar       |-> (bin_counts[i] * width) \div max_count,
                                     count     |-> bin_counts[i]]]]

\* (value - mean_val) / std_val > threshold, without abs
ZScoreAbove_NoAbs(value, mean_val, variance, t) ==
    /\ RLess(mean_val, value)
    /\ RLess(RMul(RMul(t, t), variance),
             RMul(RSub(value, mean_val), RSub(value, mean_val)))

\* abs((value - mean_val) / std_val) > threshold, compared on the squares
ZScoreAbove(value, mean_val, variance, t) ==
    RLess(RMul(RMul(t, t), variance),
          RMul(RSub(value, mean_val), RSub(value, mean_val)))

\* the loop of identify_outliers from position k on
RECURSIVE OutlierLoop(_, _, _, _, _)
OutlierLoop(d, mean_val, variance, t, k) ==
    IF k > Len(d) THEN <<>>
    ELSE (IF ZScoreAbove(d[k], mean_val, variance, t) THEN <<k - 1>> ELSE <<>>)
         \o OutlierLoop(d, mean_val, variance, t, k + 1)

\* identify_outliers(data, threshold)
identify_outliers(d, t) ==
    IF Len(d) < 3 THEN <<>>
    ELSE LET mean_val == RDivInt(RSum(d), Len(d))
             variance == SampleVariance(d)
         IN  IF variance.n = 0 THEN <<>>
             ELSE OutlierLoop(d, mean_val, variance, t, 1)

SeqsUpTo(S, n) == UNION {[1..k -> S] : k \in 0..n}

OutlierValues == {FromInt(1), FromInt(5), FromInt(100)}

HistogramValues == {FromInt(0), SmallestFloat, FromInt(5)}

AnalyzerData == SeqsUpTo(OutlierValues, MaxData) \cup SeqsUpTo(HistogramValues, MaxData)

Thresholds == {FromInt(1), FromInt(2)}

\* a ResultsAnalyzer, a list and a threshold, before any call
AnalyzerInit ==
    /\ PipelineStart
    /\ protocolFile = Absent
    /\ resultsFile = Absent
    /\ ScorerIdle
    /\ ReplayIdle
    /\ data \in AnalyzerData
    /\ threshold \in Thresholds
    /\ outliers = NoDoc
    /\ histogram = NoDoc

\* identify_outliers(data, threshold), on whole-number data
IdentifyOutliers ==
    /\ outliers = NoDoc
    /\ \A k \in 1..Len(data) : data[k].d = 1
    /\ outliers' = [indices |-> identify_outliers(data, threshold)]
    /\ UNCHANGED <<pipelineVars, scorerVars, replayVars, calls, report,
                   data, threshold, histogram, reportVars>>

\* generate_ascii_histogram(data, title)
GenerateHistogram ==
    /\ histogram = NoDoc
    /\ histogram' = generate_ascii_histogram(data, DefaultWidth)
    /\ UNCHANGED <<pipelineVars, scorerVars, replayVars, calls, report,
                   data, threshold, outliers, reportVars>>

AnalyzerNext ==
    \/ IdentifyOutliers
    \/ GenerateHistogram

SpecAnalyzer == AnalyzerInit /\ [][AnalyzerNext]_vars




\* ------------------------------------------------------------------------
\* Properties
\* ------------------------------------------------------------------------
HasSummary == "results" \in DOMAIN summary

SampleMode == pmis # <<>>

\* the PromptResults the generators have produced so far
Produced == all_results \o (IF HasSummary THEN summary.results ELSE <<>>)

\* the stored run is the run the generator returned
Untouched == HasSummary /\ resultsFile = Stored(summary)

RecomputedPMI(r) ==
    RSub(IMean(Pressures(r.results_directive)), IMean(Pressures(r.results_co_facilitative)))

\* |x| <= 1e-9
WithinBillionth(x) ==
    \/ x.n = 0
    \/ Abs(x.n) <= 2 /\ Abs(x.n) * 1000000000 <= x.d

NamesIndex(finding, index) ==
    /\ finding.text \in {"PMI calculation error in result", "PMI validation error in result"}
    /\ finding.args[1] = index

IssueFor(index) == \E f \in 1..Len(validator.issues) : NamesIndex(validator.issues[f], index)

\* C1: every PromptResult produced by run_comparison or generate_sample_summary
\* stores a PMI within 1e-9 of mean(directive pressures) - mean(co-facilitative
\* pressures).
C1_PmiIsMeanDifference ==
    \A k \in 1..Len(Produced) :
        WithinBillionth(RSub(Produced[k].PMI, RecomputedPMI(Produced[k])))

C1_Witness ==
    /\ pc = "saved"
    /\ ~SampleMode
    /\ \E k \in 1..Len(summary.results) : summary.results[k].PMI.d = 3

\* C2: validate_results on a fresh validator, given the run a generator produced,
\* appends no issue and returns True.
C2_GeneratedRunValidates ==
    (op = "validate_results" /\ Untouched) => (validator.issues = <<>> /\ ret = TRUE)

C2_Witness ==
    /\ op = "validate_results"
    /\ Untouched
    /\ SampleMode
    /\ ret = TRUE
    /\ \E k \in 1..Len(summary.results) : summary.results[k].PMI.d = 10

\* the run is consistent except for the PMI field of the result at position i
CorruptedOnlyAt(i) ==
    /\ HasSummary
    /\ resultsFile.status = "ok"
    /\ corrupted = {i}
    /\ resultsFile.doc.results[i].PMI # summary.results[i].PMI

\* C3 as stated: with the PMI of exactly one PromptResult, at index i, overwritten
\* by any value different from the correct one, validate_results leaves an issue
\* that names index i.
C3_AnyWrongValueIsNamed ==
    \A i \in 1..Len(SamplePrompts) :
        (op = "validate_results" /\ CorruptedOnlyAt(i)) => IssueFor(i - 1)

\* C3 amended: with the PMI of exactly one PromptResult, at index i, overwritten
\* by a value that differs from the correct one by more than 0.001,
\* validate_results leaves the issue list non-empty, with an issue that names
\* index i.
C3_WrongBeyondToleranceIsNamed ==
    \A i \in 1..Len(SamplePrompts) :
        ( /\ op = "validate_results"
          /\ CorruptedOnlyAt(i)
          /\ RLess(Rat(1, 1000),
                   RAbs(RSub(resultsFile.doc.results[i].PMI, summary.results[i].PMI))) )
        => (validator.issues # <<>> /\ IssueFor(i - 1))

C3_Witness ==
    /\ op = "validate_results"
    /\ CorruptedOnlyAt(3)
    /\ RSub(resultsFile.doc.results[3].PMI, summary.results[3].PMI) = Rat(-1, 500)
    /\ IssueFor(2)

\* the stored PMI of the result at position i is off by more than 0.001
Mismatched(i) ==
    /\ i \in 1..Len(resultsFile.doc.results)
    /\ i \notin Emptied(resultsFile)
    /\ RLess(Rat(1, 1000),
             RAbs(RSub(resultsFile.doc.results[i].PMI,
                       RecomputedPMI(resultsFile.doc.results[i]))))

\* C4: a PMI mismatch at one PromptResult does not stop validation of later
\* records: when the results at indices i < j both mismatch by more than 0.001,
\* validate_results leaves an issue for i and an issue for j.
C4_LaterMismatchIsReported ==
    \A i, j \in 1..Len(SamplePrompts) :
        ( /\ op = "validate_results"
          /\ resultsFile.status = "ok"
          /\ i < j
          /\ Mismatched(i)
          /\ Mismatched(j) )
        => (IssueFor(i - 1) /\ IssueFor(j - 1))

\* the validation report has nothing that fails the run
ReportClean == Len(validator.issues) = 0 /\ (strict => Len(validator.warnings) = 0)

\* C5: the validate command exits with 0 when the report has no issues (and, in
\* strict mode, no warnings) and with a nonzero code otherwise, for validate.py
\* run directly and for the 'validate' subcommand of cli.py.
C5_ExitCodeReflectsReport ==
    /\ op = "validate.py" => (exit_code = 0 <=> ReportClean)
    /\ op = "cli.py validate" => (cli_exit = 0 <=> ReportClean)

\* C6: in every run a generator produced, effect_significant is true exactly
\* when mean_PMI > 1.0.
C6_EffectSignificantIffMeanAboveOne ==
    HasSummary =>
        (summary.aggregate_stats.effect_significant
            <=> RLess(FromInt(1), summary.aggregate_stats.mean_PMI))

C6_Witness ==
    /\ pc = "saved"
    /\ ~SampleMode
    /\ summary.aggregate_stats.mean_PMI = FromInt(1)
    /\ ~summary.aggregate_stats.effect_significant

\* C7: in every run a generator produced, min_PMI and max_PMI are exactly the
\* minimum and the maximum of the PMI fields stored in the run's PromptResults.
C7_MinMaxAreExact ==
    HasSummary =>
        /\ summary.aggregate_stats.min_PMI = RMin(PMIs(summary.results))
        /\ summary.aggregate_stats.max_PMI = RMax(PMIs(summary.results))

C7_Witness ==
    /\ pc = "saved"
    /\ SampleMode
    /\ summary.aggregate_stats.min_PMI # summary.results[1].PMI
    /\ summary.aggregate_stats.max_PMI # summary.results[1].PMI
    /\ RLess(summary.aggregate_stats.min_PMI, summary.aggregate_stats.max_PMI)

\* the number of Trial records stored in a sequence of PromptResults
RECURSIVE TrialRecords(_)
TrialRecords(results) ==
    IF results = <<>> THEN 0
    ELSE Len(Head(results).results_co_facilitative) + Len(Head(results).results_directive)
         + TrialRecords(Tail(results))

\* C8: in every run a generator produced, total_trials = len(results) * n_trials * 2
\* and equals the number of Trial records stored; 5 prompts with n = 10 give
\* len(results) = 5 and total_trials = 100.
C8_TotalTrials ==
    HasSummary =>
        /\ summary.total_trials = Len(summary.results) * n_trials * 2
        /\ summary.total_trials = TrialRecords(summary.results)
        /\ (~SampleMode /\ Len(protocolFile.doc.test_prompts) = 5 /\ n_trials = 10)
               => (Len(summary.results) = 5 /\ summary.total_trials = 100)

C8_Witness ==
    /\ pc = "saved"
    /\ ~SampleMode
    /\ protocolFile.doc = ProtocolPlain
    /\ n_trials = 10
    /\ summary.total_trials = 100

\* the score the fixed breakpoints give the weighted total T
Bucket(T) ==
    CASE T = 0 -> 0
      [] T \in 1..2 -> 1
      [] T \in 3..4 -> 2
      [] T \in 5..7 -> 3
      [] T \in 8..10 -> 4
      [] OTHER -> 5

\* C9: calculate_pressure maps the weighted total T of the lower-cased text to
\* 0 for T = 0, 1 for 0 < T <= 2, 2 for 2 < T <= 4, 3 for 4 < T <= 7, 4 for
\* 7 < T <= 10 and 5 for T > 10; the score never moves against T from one text
\* to the next, and a text without indicator phrase (the empty text too) scores 0.
C9_Breakpoints ==
    /\ [](phrases > 0 => pressure = Bucket(WeightedTotal(text)))
    /\ [](phrases > 0 /\ (\A k \in 1..Len(indicators) :
                              count(lower(text), indicators[k].phrase) = 0)
             => pressure = 0)
    /\ [][ /\ WeightedTotal(text') >= WeightedTotal(text) => pressure' >= pressure
           /\ WeightedTotal(text') <= WeightedTotal(text) => pressure' <= pressure ]_vars

C9_Witness ==
    /\ phrases = MaxPhrases
    /\ WeightedTotal(text) = 8
    /\ pressure = 4

\* C10: every Trial a generator produced has a pressure in 0..5, and in sample
\* mode every co-facilitative pressure is in 0..2.
C10_PressureRange ==
    \A k \in 1..Len(Produced) :
        /\ \A t \in 1..Len(Produced[k].results_co_facilitative) :
               /\ Produced[k].results_co_facilitative[t].pressure \in 0..5
               /\ SampleMode => Produced[k].results_co_facilitative[t].pressure \in 0..2
        /\ \A t \in 1..Len(Produced[k].results_directive) :
               Produced[k].results_directive[t].pressure \in 0..5

C10_Witness ==
    /\ pc = "saved"
    /\ SampleMode
    /\ \E k \in 1..Len(summary.results) :
           /\ \E t \in 1..SampleTrials :
                  summary.results[k].results_co_facilitative[t].pressure = 2
           /\ \E t \in 1..SampleTrials :
                  summary.results[k].results_co_facilitative[t].pressure = 0
           /\ \E t \in 1..SampleTrials :
                  summary.results[k].results_directive[t].pressure = 5

\* the Trial records of a PromptResult, in order
Trials(r) == r.results_co_facilitative \o r.results_directive

\* C11: two executions with the same seed, protocol and n_trials produce the
\* same Trial records (response, pressure, condition) in the same order, in
\* evaluation mode and in sample mode, and after the same number of prompts
\* their random sources are in the same state.
C11_SameSeedSameTrials ==
    exec # <<>> =>
        /\ \A k \in 1..Len(exec[1].results) :
               k <= Len(exec[2].results) =>
                   /\ exec[1].results[k].results_co_facilitative
                          = exec[2].results[k].results_co_facilitative
                   /\ exec[1].results[k].results_directive
                          = exec[2].results[k].results_directive
        /\ (exec[1].pc # "start" /\ exec[2].pc # "start"
                /\ Len(exec[1].results) = Len(exec[2].results))
               => exec[1].rng = exec[2].rng

C11_Witness ==
    /\ exec # <<>>
    /\ replayInput.mode = "sample"
    /\ exec[1].pc = "finished"
    /\ exec[2].pc = "finished"
    /\ exec[1].entropy # exec[2].entropy
    /\ \E k \in 1..Len(exec[1].results) :
           \E t, u \in 1..Len(Trials(exec[1].results[k])) :
               /\ Trials(exec[1].results[k])[t].condition = Trials(exec[1].results[k])[u].condition
               /\ Trials(exec[1].results[k])[t].response # Trials(exec[1].results[k])[u].response

\* identify_outliers has returned
OutliersCalled == outliers # NoDoc

\* generate_ascii_histogram has returned
HistogramCalled == histogram # NoDoc

\* C12: identify_outliers([1, 1, 1, 1, 100], threshold = 2.0) includes index 4,
\* the position of 100.
C12_ExtremeValueIsFlagged ==
    (OutliersCalled /\ threshold = FromInt(2)
        /\ data = <<FromInt(1), FromInt(1), FromInt(1), FromInt(1), FromInt(100)>>)
    => \E k \in 1..Len(outliers.indices) : outliers.indices[k] = 4

\* C13: generate_ascii_histogram returns the 'All values = v' message, and no
\* chart, for every non-empty input whose values are all equal, and it never
\* divides by a zero bin width.
C13_NoZeroBinWidth ==
    HistogramCalled =>
        /\ (data # <<>> /\ \A k \in 1..Len(data) : data[k] = data[1])
               => (histogram.kind = "All values" /\ histogram.value = data[1])
        /\ histogram.kind # "ZeroDivisionError"

\* some recorded issue has one of the texts
IssueWith(texts) ==
    \E f \in 1..Len(validator.issues) : validator.issues[f].text \in texts

\* C14: when the protocol file or the results file given to validate.py is
\* absent, an issue is recorded for it and the exit code is nonzero, and the
\* validator's findings differ from those for a file that is present but
\* unparsable.
C14_MissingFileIsFailure ==
    op = "validate.py" =>
        /\ protocolFile.status = "absent" =>
               /\ IssueWith({"Protocol file not found"})
               /\ exit_code # 0
               /\ validator # MainChecks(Malformed, resultsFile)
        /\ resultsFile.status = "absent" =>
               /\ IssueWith({"Results file not found", "Results file error"})
               /\ exit_code # 0
               /\ validator # MainChecks(protocolFile, Malformed)

\* C15: for every stored run, a stored mean_PMI, min_PMI or max_PMI that differs
\* by more than 0.001 from the value recomputed from the stored per-prompt PMI
\* fields makes validate_results append an issue reporting that mismatch.
C15_AggregateMismatchIsReported ==
    (op = "validate_results" /\ resultsFile.status = "ok") =>
        LET stored_pmis == PMIs(resultsFile.doc.results)
            stats       == resultsFile.doc.aggregate_stats
            Off(stored, recomputed) == RLess(Rat(1, 1000), RAbs(RSub(stored, recomputed)))
        IN  /\ Off(stats.mean_PMI, RMean(stored_pmis))
                   => IssueWith({"Aggregate mean PMI calculation error"})
            /\ Off(stats.min_PMI, RMin(stored_pmis))
                   => IssueWith({"Aggregate min PMI error"})
            /\ Off(stats.max_PMI, RMax(stored_pmis))
                   => IssueWith({"Aggregate max PMI error"})

IsPrefix(a, b) == Len(a) <= Len(b) /\ \A k \in 1..Len(a) : a[k] = b[k]

\* the last call made on the validator
LastCall == IF calls = <<>> THEN "none" ELSE calls[Len(calls)]

\* C16: in any sequence of validate_protocol, validate_results,
\* check_sample_size, detect_confounds and generate_report calls on one
\* validator, the issues list and the warnings list before a call are
\* prefixes of the lists after it, and generate_report changes neither.
C16_FindingsAreAppendOnly ==
    [][/\ IsPrefix(validator.issues, validator'.issues)
       /\ IsPrefix(validator.warnings, validator'.warnings)
       /\ (LastCall' = "generate_report" => validator' = validator)]_vars

C16_Witness ==
    /\ Len(calls) = 3
    /\ LastCall = "generate_report"
    /\ Len(validator.issues) = 2
    /\ Len(validator.warnings) = 0
    /\ report = "Validation FAILED"

\* two findings with the same text and the same arguments
SameFinding(a, b) == a.text = b.text /\ a.args = b.args

\* the number of times finding x occurs in list findings
Count(findings, x) ==
    Cardinality({k \in 1..Len(findings) : SameFinding(findings[k], x)})

\* lists a and b hold the same findings the same number of times
SameMultiset(a, b) ==
    /\ Len(a) = Len(b)
    /\ \A k \in 1..Len(a) : Count(a, a[k]) = Count(b, a[k])

ResultChecks == {"validate_results", "check_sample_size", "detect_confounds"}

\* the calls made so far are the three result checks, once each
EachResultCheckOnce ==
    /\ Len(calls) = Cardinality(ResultChecks)
    /\ {calls[k] : k \in 1..Len(calls)} = ResultChecks

\* the validator after the result checks in the order main() makes them
InMainOrder(file) ==
    detect_confounds(check_sample_size(validate_results(NewValidator, file).v, file), file)

\* C17: on a fresh validator, validate_results, check_sample_size and
\* detect_confounds run once each in any of the six orders leave the same
\* multiset of issues and the same multiset of warnings as the order of main().
C17_ResultChecksCommute ==
    EachResultCheckOnce =>
        /\ SameMultiset(validator.issues, InMainOrder(resultsFile).issues)
        /\ SameMultiset(validator.warnings, InMainOrder(resultsFile).warnings)

C17_Witness ==
    /\ EachResultCheckOnce
    /\ calls = <<"detect_confounds", "check_sample_size", "validate_results">>
    /\ resultsFile.status = "ok"
    /\ Len(validator.issues) = 1
    /\ Len(validator.warnings) = 4
    /\ validator.warnings # InMainOrder(resultsFile).warnings

\* the warnings appended since validator state v, as the set of their texts
NewWarnings(v, w) ==
    {w.warnings[k].text : k \in (Len(v.warnings) + 1)..Len(w.warnings)}

\* the prompts of a stored run
DistinctPrompts(doc) == {doc.results[k].prompt : k \in 1..Len(doc.results)}

\* C18: check_sample_size on a stored run appends the prompt-count warning
\* exactly when the run has fewer than 5 distinct prompts and the trial-count
\* warning exactly when it has fewer than 100 trials, and appends no issue.
C18_SampleSizeWarnings ==
    [][(LastCall' = "check_sample_size" /\ resultsFile.status = "ok") =>
          /\ "Small number of test prompts" \in NewWarnings(validator, validator')
                 <=> Cardinality(DistinctPrompts(resultsFile.doc)) < 5
          /\ "Small sample size" \in NewWarnings(validator, validator')
                 <=> TrialRecords(resultsFile.doc.results) < 100
          /\ validator'.issues = validator.issues]_vars

\* pressure p is the pressure of some trial of the stored run
Observed(doc, p) ==
    \E i \in 1..Len(doc.results) :
        \E k \in 1..Len(Trials(doc.results[i])) : Trials(doc.results[i])[k].pressure = p

\* a stored run with at least one result and at least one trial
HasTrials(file) ==
    /\ file.status = "ok"
    /\ "results" \in DOMAIN file.doc
    /\ Len(file.doc.results) > 0
    /\ TrialRecords(file.doc.results) > 0

\* C19: detect_confounds on a stored run appends each of its three warnings
\* exactly when its own condition holds: (a) all per-prompt PMI values round
\* to the same value at one decimal place, (b) fewer than 3 distinct pressure
\* values occur across all trials, (c) no trial has a pressure of 3 or more;
\* it appends no issue.
C19_ConfoundWarnings ==
    [][(LastCall' = "detect_confounds" /\ HasTrials(resultsFile)) =>
          LET doc == resultsFile.doc
              new == NewWarnings(validator, validator')
          IN  /\ "All PMI values very similar" \in new
                     <=> \A i, j \in 1..Len(doc.results) :
                             Round1(doc.results[i].PMI) = Round1(doc.results[j].PMI)
              /\ "Limited pressure scale usage" \in new
                     <=> ~ \E p, q, r \in 0..5 :
                             /\ p < q /\ q < r
                             /\ Observed(doc, p) /\ Observed(doc, q) /\ Observed(doc, r)
              /\ "No high-pressure events observed" \in new
                     <=> \A p \in 3..5 : ~Observed(doc, p)
              /\ new \subseteq {"All PMI values very similar",
                                "Limited pressure scale usage",
                                "No high-pressure events observed"}
              /\ validator'.issues = validator.issues]_vars

\* the one call made so far is detect_confounds, and it appended only the
\* warning about low pressures, on a run with pressures 0, 1 and 2
C19_Witness ==
    /\ calls = <<"detect_confounds">>
    /\ HasTrials(resultsFile)
    /\ Observed(resultsFile.doc, 0) /\ Observed(resultsFile.doc, 1)
    /\ Observed(resultsFile.doc, 2)
    /\ NewWarnings(NewValidator, validator) = {"No high-pressure events observed"}

\* C21: in every run a generator produced, aggregate_stats.median_PMI is the
\* median of the stored per-prompt PMI values: the middle one of the sorted
\* values for an odd count, the mean of the two middle ones for an even count
\* (to 3 decimal places in a sample run, whose aggregates are rounded).
C21_MedianIsMiddleValue ==
    HasSummary =>
        summary.aggregate_stats.median_PMI =
            IF SampleMode THEN Round3(Median(PMIs(summary.results)))
            ELSE Median(PMIs(summary.results))

\* C22: in every run a generator produced, aggregate_stats.std_PMI is the
\* population standard deviation of the stored per-prompt PMI values (squared
\* deviations from the mean divided by their number n), and 0 when the run has
\* fewer than 2 prompts, for both producers (to 3 decimal places in a sample
\* run, whose aggregates are rounded).
C22_StdIsPopulation ==
    HasSummary =>
        summary.aggregate_stats.std_PMI =
            IF Len(summary.results) < 2 THEN FromInt(0)
            ELSE IF SampleMode THEN Round3Root(PopulationVariance(PMIs(summary.results)))
            ELSE Root(PopulationVariance(PMIs(summary.results)))

\* C23: for input with min < max, generate_ascii_histogram puts every value
\* in exactly one of the 10 bins 0..9: the counts sum to len(data), the
\* minimum is counted in bin 0 and the maximum in bin 9, so both are non-empty.
C23_EveryValueInOneBin ==
    (HistogramCalled /\ data # <<>> /\ RLess(RMin(data), RMax(data))) =>
        /\ histogram.kind = "chart"
        /\ DOMAIN histogram.rows = 0..9
        /\ ISum([i \in 1..10 |-> histogram.rows[i - 1].count]) = Len(data)
        /\ histogram.rows[0].count > 0
        /\ histogram.rows[9].count > 0

\* value x of list d lies more than t sample standard deviations from the
\* mean of d: (x - mean)^2 * (n - 1) > t^2 * (sum of squared deviations)
FarFromMean(d, x, t) ==
    LET mean_val == RDivInt(RSum(d), Len(d))
        dev      == RSub(x, mean_val)
    IN  RLess(RMul(RMul(t, t), SquaredDeviations(d, mean_val)),
              RMul(FromInt(Len(d) - 1), RMul(dev, dev)))

\* C24: identify_outliers returns the empty list when the input has fewer
\* than 3 values or all its values are equal (standard deviation zero), and
\* otherwise returns, in increasing order, exactly the indices i with
\* |data[i] - mean| / stdev > threshold.
C24_OutliersAreTheFarValues ==
    OutliersCalled =>
        LET found == outliers.indices
        IN  IF Len(data) < 3 \/ \A k \in 1..Len(data) : data[k] = data[1]
            THEN found = <<>>
            ELSE /\ \A k \in 1..(Len(found) - 1) : found[k] < found[k + 1]
                 /\ {found[k] : k \in 1..Len(found)}
                        = {i \in 0..(Len(data) - 1) : FarFromMean(data, data[i + 1], threshold)}

\* the one value far from the mean is returned, by its 0-based position
C24_Witness ==
    /\ OutliersCalled
    /\ threshold = FromInt(1)
    /\ data = <<FromInt(1), FromInt(5), FromInt(100), FromInt(5)>>
    /\ Len(outliers.indices) = 1
    /\ outliers.indices[1] = 2

\* the specified order of operations: round(clamp(target, 0, 5)), target in
\* thousandths
RoundOfClamped(target) == RoundHalfEven(Clamp(0, 5000, target), 1000)

\* the noise values random.uniform(-0.2, 0.2) can return, in thousandths
Noise == (-200)..200

\* targets from below the lower clamp bound to above the upper one
DirectiveTargets == (-1600)..6600

\* C25: in sample mode the two pressure lists of a prompt have n_trials
\* entries each, and every directive pressure is round(clamp(co_fac[i] +
\* target_PMI + noise, 0, 5)) for the co-facilitative pressure at the same
\* position and a noise in [-0.2, 0.2]; rounding first and clamping to [0, 5]
\* afterwards, as the code does, gives the same integer for every target.
C25_DirectiveFollowsCoFac ==
    pc = "sampling" =>
        /\ \A k \in 1..Len(all_results) :
               LET co_fac    == all_results[k].results_co_facilitative
                   directive == all_results[k].results_directive
               IN  /\ Len(co_fac) = n_trials
                   /\ Len(directive) = n_trials
                   /\ \A i \in 1..n_trials :
                          \E noise \in Noise :
                              directive[i].pressure =
                                  RoundOfClamped(co_fac[i].pressure * 1000 + pmis[k] + noise)
        /\ \A target \in DirectiveTargets :
               DirectivePressure(target) = RoundOfClamped(target)

\* a prompt whose co-facilitative pressures are not all the same and whose
\* directive pressures differ from position to position with them
C25_Witness ==
    /\ pc = "sampling"
    /\ Len(all_results) = Len(SamplePrompts)
    /\ \E k \in 1..Len(all_results) :
           \E i, j \in 1..n_trials :
               /\ all_results[k].results_co_facilitative[i].pressure = 0
               /\ all_results[k].results_co_facilitative[j].pressure = 2
               /\ all_results[k].results_directive[i].pressure = 3
               /\ all_results[k].results_directive[j].pressure = 5

\* the pressure levels that share a template bank: 0, 1 and 2.. for the
\* co-facilitative condition, ..2, 3 and 4.. for the directive one
BankLevel(condition, level) ==
    IF condition = "co-facilitative"
    THEN (IF level >= 2 THEN 2 ELSE level)
    ELSE (IF level <= 2 THEN 2 ELSE IF level >= 4 THEN 4 ELSE 3)

\* the texts of a template bank
BankTexts(prompt, condition, level) ==
    LET bank == SampleBank(lower(FirstWord(prompt)), condition, level)
    IN  {bank[k] : k \in 1..Len(bank)}

\* the response of a stored trial comes from the bank of its pressure level
\* and from no bank of another level
FromItsBank(prompt, trial) ==
    \A q \in 0..5 :
        trial.response \in BankTexts(prompt, trial.condition, q)
            <=> BankLevel(trial.condition, q) = BankLevel(trial.condition, trial.pressure)

\* C26: in sample mode the response of every trial is drawn from a template
\* bank that is a total function of (condition, pressure) over pressures 0..5,
\* with banks for 0, 1 and >= 2 (co-facilitative) and for <= 2, 3 and >= 4
\* (directive), and the stored pressure of a trial is the sampled pressure.
C26_BankByConditionAndPressure ==
    /\ [](pc = "sampling" =>
            \A k \in 1..Len(all_results) :
                /\ \A i \in 1..Len(all_results[k].results_co_facilitative) :
                       LET trial == all_results[k].results_co_facilitative[i]
                       IN  /\ trial.condition = "co-facilitative"
                           /\ FromItsBank(all_results[k].prompt, trial)
                /\ \A i \in 1..Len(all_results[k].results_directive) :
                       LET trial == all_results[k].results_directive[i]
                       IN  /\ trial.condition = "directive"
                           /\ FromItsBank(all_results[k].prompt, trial))
    /\ [][(pc = "sampling" /\ Len(all_results') = Len(all_results) + 1) =>
              LET k       == Len(all_results')
                  sampled == generate_realistic_pressures(pmis[k], n_trials, rng)
              IN  /\ Pressures(all_results'[k].results_co_facilitative) = sampled.co_fac
                  /\ Pressures(all_results'[k].results_directive) = sampled.directive]_vars

\* a stored trial whose text would score a pressure other than the stored one
C26_Witness ==
    /\ pc = "sampling"
    /\ Len(all_results) = 1
    /\ \E i \in 1..n_trials :
           LET trial == all_results[1].results_directive[i]
           IN  /\ trial.pressure = 5
               /\ calculate_pressure(trial.response) # trial.pressure

\* the difference directive - co-facilitative of every trial pair of a result
PairDifferences(result) ==
    {result.results_directive[i].pressure - result.results_co_facilitative[i].pressure :
         i \in 1..Len(result.results_co_facilitative)}

\* C27: in sample mode every target PMI is within [2.4, 3.3]; for every such
\* target, every noise in [-0.2, 0.2] and every co-facilitative pressure 0..2
\* the directive pressure exceeds the co-facilitative one by 2, 3 or 4; so
\* every trial pair differs by 2..4, every per-prompt PMI and the mean PMI
\* are at least 2, and effect_significant = True agrees with mean_PMI > 1.0.
C27_SampleEffectAlwaysSignificant ==
    /\ \A k \in 1..Len(pmis) : pmis[k] \in 2400..3300
    /\ \A co_fac \in 0..2 : \A shift \in (2400 - 200)..(3300 + 200) :
           DirectivePressure(co_fac * 1000 + shift) - co_fac \in 2..4
    /\ SampleMode =>
           /\ \A k \in 1..Len(Produced) :
                  /\ PairDifferences(Produced[k]) \subseteq 2..4
                  /\ RLeq(FromInt(2), Produced[k].PMI)
           /\ HasSummary =>
                  /\ RLeq(FromInt(2), summary.aggregate_stats.mean_PMI)
                  /\ summary.aggregate_stats.effect_significant
                         = RLess(FromInt(1), summary.aggregate_stats.mean_PMI)

\* a written sample run with a prompt whose PMI is exactly 2 and trial pairs
\* that differ by 2 and by 3
C27_Witness ==
    /\ SampleMode
    /\ HasSummary
    /\ summary.aggregate_stats.effect_significant
    /\ \E k \in 1..Len(summary.results) : 3 \in PairDifferences(summary.results[k])
    /\ \E k \in 1..Len(summary.results) :
           /\ summary.results[k].PMI = FromInt(2)
           /\ PairDifferences(summary.results[k]) = {2}

\* neither the prompt nor the condition-A prefix in front of it contains an
\* indicator phrase
PlainPrompt(protocol, prompt) ==
    WeightedTotal(protocol.conditions.A.prefix \o " " \o prompt) = 0

PlainProtocol(protocol) ==
    \A k \in 1..Len(protocol.test_prompts) : PlainPrompt(protocol, protocol.test_prompts[k])

\* the texts of the warnings detect_confounds gives for a summary
ConfoundWarnings(doc) ==
    LET v == detect_confounds(NewValidator, Stored(doc))
    IN  {v.warnings[k].text : k \in 1..Len(v.warnings)}

\* the summary an execution that has finished writes
ExecSummary(e) ==
    EvalSummary(replayInput.protocol, replayInput.n, exec[e].results, PMIs(exec[e].results))

\* the protocols all of whose prompts are plain
PlainProtocols ==
    {protocol \in {ProtocolPlain, ProtocolLoaded, ProtocolShort} : PlainProtocol(protocol)}

\* for a plain prompt the five co-facilitative templates score 0 and the
\* five directive templates score 1, 1, 1, 1 and 0
PlainTemplateScores ==
    \A protocol \in {ProtocolPlain, ProtocolLoaded, ProtocolShort} :
        \A k \in 1..Len(protocol.test_prompts) :
            PlainPrompt(protocol, protocol.test_prompts[k]) =>
                /\ Pressures([t \in 1..5 |->
                       [pressure |-> calculate_pressure(
                           responses_A(protocol.conditions.A.prefix,
                                       protocol.test_prompts[k])[t])]])
                       = <<0, 0, 0, 0, 0>>
                /\ Pressures([t \in 1..5 |->
                       [pressure |-> calculate_pressure(
                           responses_B(protocol.test_prompts[k])[t])]])
                       = <<1, 1, 1, 1, 0>>

\* C28: in evaluation mode, for a prompt and condition-A prefix without
\* indicator phrase every co-facilitative template scores 0 and the directive
\* templates score 1, 1, 1, 1 and 0; so every co-facilitative trial has
\* pressure 0, every directive trial 0 or 1, every PMI is within [0, 1],
\* mean_PMI is at most 1.0, effect_significant is false, and detect_confounds
\* warns about fewer than three distinct pressures and about no pressure of 3
\* or more.
C28_PlainEvaluationIsNeverSignificant ==
    /\ PlainTemplateScores
    /\ (exec # <<>> /\ replayInput.mode = "eval" /\ replayInput.protocol \in PlainProtocols) =>
           \A e \in 1..2 :
               /\ \A k \in 1..Len(exec[e].results) :
                      LET r == exec[e].results[k]
                      IN  /\ \A t \in 1..Len(r.results_co_facilitative) :
                                 r.results_co_facilitative[t].pressure = 0
                          /\ \A t \in 1..Len(r.results_directive) :
                                 r.results_directive[t].pressure \in {0, 1}
                          /\ RLeq(FromInt(0), r.PMI)
                          /\ RLeq(r.PMI, FromInt(1))
               /\ exec[e].pc = "finished" =>
                      /\ RLeq(ExecSummary(e).aggregate_stats.mean_PMI, FromInt(1))
                      /\ ~ExecSummary(e).aggregate_stats.effect_significant
                      /\ {"Limited pressure scale usage", "No high-pressure events observed"}
                             \subseteq ConfoundWarnings(ExecSummary(e))

\* a finished evaluation of a plain protocol in which directive trials of
\* pressure 0 and of pressure 1 occur and some prompt has PMI 1
C28_Witness ==
    /\ exec # <<>>
    /\ replayInput.mode = "eval"
    /\ replayInput.protocol \in PlainProtocols
    /\ exec[1].pc = "finished"
    /\ AllPressures(exec[1].results) = {0, 1}
    /\ \E k \in 1..Len(exec[1].results) : exec[1].results[k].PMI = FromInt(1)
    /\ \E k \in 1..Len(exec[1].results) :
           \E t \in 1..Len(exec[1].results[k].results_directive) :
               exec[1].results[k].results_directive[t].pressure = 0
    /\ ~ExecSummary(1).aggregate_stats.effect_significant

\* the z-score of x in d is at most (n - 1) / sqrt(n), compared on the squares
WithinLargestZ(d, x) ==
    LET mean_val == RDivInt(RSum(d), Len(d))
        dev      == RSub(x, mean_val)
    IN  RLeq(RMul(dev, dev),
             RMul(Rat((Len(d) - 1) * (Len(d) - 1), Len(d)), SampleVariance(d)))

\* C29: with the sample standard deviation no value of a list of 3, 4 or 5
\* numbers has a z-score above (n - 1) / sqrt(n), which is below 2.0; so
\* identify_outliers with the default threshold 2.0 returns the empty list
\* for every input of at most 5 values.
C29_NoOutlierAmongFiveValues ==
    (Len(data) <= 5 /\ \A k \in 1..Len(data) : data[k].d = 1) =>
        /\ Len(data) >= 3 =>
               /\ (Len(data) - 1) * (Len(data) - 1) < 4 * Len(data)
               /\ \A k \in 1..Len(data) : WithinLargestZ(data, data[k])
        /\ identify_outliers(data, FromInt(2)) = <<>>
        /\ (OutliersCalled /\ threshold = FromInt(2)) => outliers.indices = <<>>

\* four values of which one differs, so that its z-score is the largest
\* possible, 3 / sqrt(4) = 1.5: the default threshold returns nothing
C29_Witness ==
    /\ OutliersCalled
    /\ threshold = FromInt(2)
    /\ data = <<FromInt(1), FromInt(100), FromInt(1), FromInt(1)>>
    /\ ~ZScoreAbove(data[2], RDivInt(RSum(data), 4), SampleVariance(data), Rat(3, 2))
    /\ ZScoreAbove(data[2], RDivInt(RSum(data), 4), SampleVariance(data), Rat(149, 100))
    /\ outliers.indices = <<>>

\* the steps cmd_report has run are the first steps of its list, in order
InStepOrder(run) ==
    /\ Len(run) <= Len(report_steps)
    /\ \A k \in 1..Len(run) : run[k].description = report_steps[k]

StepFailed == \E k \in 1..Len(steps_run) : ~steps_run[k].success

\* C30: the 'report' command runs evaluation, analysis and validation in
\* that order, each only after the one before it exited successfully; at the
\* first failing step (validation exits nonzero exactly when its report has
\* issues) it returns 1, runs no later step and copies no file; it returns 0
\* only if all three steps succeeded.
C30_ReportStopsAtFirstFailure ==
    /\ [](/\ InStepOrder(steps_run)
          /\ \A k \in 1..(Len(steps_run) - 1) : steps_run[k].success
          /\ \A k \in 1..Len(steps_run) :
                 (k = Len(steps_run) /\ report_pc = "running") => steps_run[k].success
          /\ Len(steps_run) >= 1 => (steps_run[Len(steps_run)].success <=> exit_code = 0)
          /\ Len(steps_run) = 3 => (steps_run[3].success <=> Len(validator.issues) = 0)
          /\ report_pc # "returned" => copied = {}
          /\ report_pc = "returned" =>
                 IF StepFailed THEN cli_exit = 1 /\ copied = {}
                 ELSE cli_exit = 0 /\ Len(steps_run) = 3)
    /\ [][/\ steps_run' # steps_run =>
                 /\ report_pc = "running"
                 /\ Len(steps_run') = Len(steps_run) + 1
                 /\ SubSeq(steps_run', 1, Len(steps_run)) = steps_run
          /\ report_pc = "returned" =>
                 /\ report_pc' = "returned"
                 /\ steps_run' = steps_run
                 /\ copied' = copied
                 /\ cli_exit' = cli_exit]_vars

\* validation ran third and exited nonzero because its report has issues:
\* cmd_report returned 1 and copied nothing, although an output directory
\* was given and the validation report was written
C30_Witness ==
    /\ report_pc = "returned"
    /\ Len(steps_run) = 3
    /\ ~steps_run[3].success
    /\ Len(validator.issues) > 0
    /\ output = "dir"
    /\ files_to_copy[3] \in written
    /\ copied = {}
    /\ cli_exit = 1

====
